---- MODULE Spec2Model ----
(***************************************************************************)
(* Transaction coordination of the wa-sqlite Prisma driver adapters.       *)
(*                                                                         *)
(* Three adapter variants share one engine connection model:               *)
(*   "depth" - PrismaWaSQLiteAdapter (src/src/wa-sqlite-adapter.ts), which  *)
(*             keeps inTransaction / transactionDepth and maps nested      *)
(*             transactions to savepoints;                                 *)
(*   "gate"  - WaSQLiteAdapter of src/src/wa-sqlite-factory.ts, which       *)
(*             serialises flat transactions with a Mutex;                  *)
(*   "flag"  - WaSQLiteAdapter of src/unnamed/part_000, whose transaction   *)
(*             objects carry an isFinished flag.                           *)
(* The variant is chosen in Init and never changes.                        *)
(***************************************************************************)
EXTENDS Integers, Sequences, FiniteSets, TLC

\* ------------------------------------------------------------------ bounds
MaxRow == 2          \* primary keys that can be inserted: 1..MaxRow
MaxHandles == 2      \* startTransaction calls that get a transaction object
MaxGateCalls == 3      \* startTransaction calls made on the mutex-gated adapter
MaxCalls == 4          \* calls made on the adapter whose calls overlap
MaxIoCalls == 2        \* queryRaw / executeRaw calls made on the connection
MaxIoRows == 1         \* rows the statement of such a call produces
MaxStmts == 2          \* statement objects prepared on the facade database
MaxScript == 3         \* executeRaw calls made on the fresh database
MaxResultRows == 2     \* rows of a query result that is converted
MaxStRows == 2         \* rows in the result of the facade statement
MaxStCalls == 3        \* run / get / all / iterate calls made on the facade statement
MaxMiStmts == 2        \* statements in the SQL text of a query
MaxMiParams == 2       \* parameters of one statement
MaxTxnCalls == 2       \* calls of a transaction function made on the facade database
MaxFacCalls == 4       \* connect, query and dispose calls made on a factory and its adapters
MaxSpins == 2          \* iterations of a busy-wait loop are counted modulo MaxSpins
MaxDepth == 2        \* startTransaction is not called at a deeper level
MaxFaults == 1       \* engine commands the environment makes fail

Rows == 1..MaxRow
\* "conc" is the depth-tracking adapter with calls pending at the same time
\* "io" is queryRaw / executeRaw with prepared statements, calls overlapping
\* "compat" is the better-sqlite3 facade of better-sqlite3-compat.ts
\* "raw" is executeRaw / queryRaw of wa-sqlite-adapter.ts on a fresh database,
\* "types" the conversion of a query result to a result set
\* "err" is a queryRaw / executeRaw call that the engine fails, "sync" the
\* blocking wrappers of the facade on the JavaScript host, "stmt" the bodies
\* of get / all / iterate of one facade statement, "fac" connect and dispose
\* on an adapter factory, "sql" the making of a facade statement from a text
Variants == {"depth", "gate", "flag", "conc", "io", "compat", "raw", "types", "err",
             "sync", "stmt", "fac", "sql", "txn",
             "multi"}
\* the adapters whose calls are made one at a time, each awaited
Sequential == {"depth", "gate", "flag"}
\* isolationLevel argument: "NONE" is the omitted (undefined) argument
IsoLevels == {"NONE", "SERIALIZABLE", "READ COMMITTED"}

VARIABLES
  variant,             \* which adapter class is under test
  eng,                 \* the engine connection: transaction state and table
  faults,              \* engine failures the environment may still inject
  inTransaction,       \* PrismaWaSQLiteAdapter.inTransaction
  transactionDepth,    \* PrismaWaSQLiteAdapter.transactionDepth
  currentTransaction,  \* PrismaWaSQLiteAdapter.currentTransaction (0 = null)
  txs,                 \* the startTransaction calls that got past the level check
  locked,              \* Mutex.locked
  queue,               \* Mutex.queue: waiting acquire() calls, oldest first
  accepted,            \* history: the engine accepted every command so far
  lifo,                \* history: every close so far was on the innermost open object
  hist,                \* history of a clean run (see Track)
  spNames,             \* history: spNames[d] = savepoint of the start that raised the depth to d
  last,                \* history: the call made last
  conn,                \* the connection handle: "open" until dispose released it
  conc,                \* overlapping calls: the calls made and the engine's command log
  io,                  \* queryRaw / executeRaw calls in progress and the native resources
  raw,                 \* table, change counter and results of executeRaw / queryRaw
  cdb,                 \* the better-sqlite3 facade: database and statement objects
  ext                  \* error conversion, facade calls, statements and factories (see NoExt)

vars == <<variant, eng, faults, inTransaction, transactionDepth, currentTransaction,
          txs, locked, queue, accepted, lifo, hist, spNames, last, conn, conc, io, raw, cdb, ext>>

\* the state of the parts not under test in the transaction adapters
aux == <<conc, io, raw, cdb, ext>>

\* ------------------------------------------------------------------ engine
\* SQL commands the adapters send through sqlite3.exec / db.exec
CmdBegin == [op |-> "BEGIN", name |-> 0]
CmdCommit == [op |-> "COMMIT", name |-> 0]
CmdRollback == [op |-> "ROLLBACK", name |-> 0]
CmdSavepoint(n) == [op |-> "SAVEPOINT", name |-> n]
CmdRelease(n) == [op |-> "RELEASE", name |-> n]
CmdRollbackTo(n) == [op |-> "ROLLBACK_TO", name |-> n]

\* a connection in autocommit mode holding table contents d
EngIdle(d) == [tx |-> FALSE, txsp |-> FALSE, sp |-> <<>>, base |-> {}, db |-> d]

\* index of the most recent savepoint called n, 0 when there is none
RECURSIVE FindSp(_, _)
FindSp(sp, n) ==
  IF sp = <<>> THEN 0
  ELSE IF sp[Len(sp)].name = n THEN Len(sp)
  ELSE FindSp(SubSeq(sp, 1, Len(sp) - 1), n)

\* sqlite3.exec(db, <one transaction-control command>): the engine after the
\* command and the error it raised ("ok" when it accepted the command).
\* fault = TRUE is a rejection for a reason outside the transaction state
\* (busy, I/O error); it leaves the connection as it was.
Exec(e, c, fault) ==
  IF fault THEN [eng |-> e, err |-> "other"]
  ELSE IF c.op = "BEGIN" THEN
    IF e.tx THEN [eng |-> e, err |-> "nested_begin"]
    ELSE [eng |-> [e EXCEPT !.tx = TRUE, !.base = e.db], err |-> "ok"]
  ELSE IF c.op = "COMMIT" THEN
    IF ~e.tx THEN [eng |-> e, err |-> "no_tx"]
    ELSE [eng |-> EngIdle(e.db), err |-> "ok"]
  ELSE IF c.op = "ROLLBACK" THEN
    IF ~e.tx THEN [eng |-> e, err |-> "no_tx"]
    ELSE [eng |-> EngIdle(e.base), err |-> "ok"]
  ELSE IF c.op = "SAVEPOINT" THEN
    IF ~e.tx
    THEN [eng |-> [tx |-> TRUE, txsp |-> TRUE, base |-> e.db, db |-> e.db,
                   sp |-> <<[name |-> c.name, snap |-> e.db]>>],
          err |-> "ok"]
    ELSE [eng |-> [e EXCEPT !.sp = Append(e.sp, [name |-> c.name, snap |-> e.db])],
          err |-> "ok"]
  ELSE LET i == FindSp(e.sp, c.name) IN
    IF i = 0 THEN [eng |-> e, err |-> "no_savepoint"]
    ELSE IF c.op = "RELEASE" THEN
      IF i = 1 /\ e.txsp THEN [eng |-> EngIdle(e.db), err |-> "ok"]
      ELSE [eng |-> [e EXCEPT !.sp = SubSeq(e.sp, 1, i - 1)], err |-> "ok"]
    ELSE \* ROLLBACK_TO: back to the savepoint, which stays on the stack
      [eng |-> [e EXCEPT !.sp = SubSeq(e.sp, 1, i), !.db = e.sp[i].snap],
       err |-> "ok"]

\* an INSERT of primary key r. mode "run": the statement runs (a duplicate key
\* fails with a UNIQUE constraint error and changes nothing); "abort": the
\* engine fails the statement and rolls the whole transaction back itself.
Insert(e, r, mode) ==
  IF mode = "abort"
  THEN [eng |-> IF e.tx THEN EngIdle(e.base) ELSE e, err |-> "other"]
  ELSE IF r \in e.db THEN [eng |-> e, err |-> "unique"]
  ELSE [eng |-> [e EXCEPT !.db = e.db \cup {r}], err |-> "ok"]

\* SELECT * of the table
Select(e) == e.db

\* commands of one try block, in order, stopping at the first one that throws
RECURSIVE ExecSeq(_, _, _)
ExecSeq(e, cmds, fs) ==
  IF cmds = <<>> THEN [eng |-> e, errs |-> <<>>]
  ELSE LET r == Exec(e, Head(cmds), Head(fs)) IN
    IF r.err # "ok" THEN [eng |-> r.eng, errs |-> <<r.err>>]
    ELSE LET rest == ExecSeq(r.eng, Tail(cmds), Tail(fs)) IN
      [eng |-> rest.eng, errs |-> <<"ok">> \o rest.errs]

AllOk(errs) == \A i \in 1..Len(errs) : errs[i] = "ok"
NumFaults(errs) == Cardinality({i \in 1..Len(errs) : errs[i] = "other"})

\* -------------------------------------------- depth-tracking adapter (code)
\* variant of IsolationOk that lets every isolation level through
IsolationOk_AcceptsAll(iso) == iso \in IsoLevels

\* isolationLevel && isolationLevel !== 'SERIALIZABLE' is the rejected case
IsolationOk(iso) == iso = "NONE" \/ iso = "SERIALIZABLE"

\* `prisma_savepoint_${this.transactionDepth}`: the name is the level
SavepointName(d) == d

\* variant of NoTransactionActive that takes every engine error as benign
NoTransactionActive_AnyError(err) == err # "ok"

\* error?.message?.includes('no transaction is active')
NoTransactionActive(err) == err = "no_tx"

\* variant of StartCmd that names the savepoint before incrementing the depth
StartCmd_StaleDepth(inTx, depth) ==
  IF ~inTx THEN CmdBegin ELSE CmdSavepoint(SavepointName(depth))

\* the command startTransaction sends: BEGIN outside a transaction, otherwise
\* SAVEPOINT named after the already incremented depth
StartCmd(inTx, depth) ==
  IF ~inTx THEN CmdBegin ELSE CmdSavepoint(SavepointName(depth + 1))

\* variant of DepthAfterClose that forgets the decrement
DepthAfterClose_NoDecrement(d) == d

\* this.transactionDepth-- of the savepoint branches
DepthAfterClose(d) == d - 1

\* sqlite3.exec(db, 'COMMIT') of commitTransaction
OuterCommitCmd == CmdCommit

\* variant of OuterRollbackCmd that ends the outer transaction by committing
OuterRollbackCmd_Commits == CmdCommit

\* sqlite3.exec(db, 'ROLLBACK') of rollbackTransaction
OuterRollbackCmd == CmdRollback

\* variant of NestedCommitCmds that releases the enclosing level's savepoint
NestedCommitCmds_OuterName(d) == <<CmdRelease(SavepointName(d - 1))>>

\* RELEASE SAVEPOINT of commitTransaction
NestedCommitCmds(d) == <<CmdRelease(SavepointName(d))>>

\* variant of NestedRollbackCmds that releases before rolling back
NestedRollbackCmds_ReleaseFirst(d) ==
  <<CmdRelease(SavepointName(d)), CmdRollbackTo(SavepointName(d))>>

\* ROLLBACK TO SAVEPOINT then RELEASE SAVEPOINT of rollbackTransaction
NestedRollbackCmds(d) == <<CmdRollbackTo(SavepointName(d)), CmdRelease(SavepointName(d))>>

\* result of a handler: the adapter fields and engine after it, the commands
\* it issued with their outcomes, how the promise settled, whether a
\* transaction object was created and whether console.warn was called
Outcome(inTx, depth, e, cmds, errs, res, err, tx, warned) ==
  [inTransaction |-> inTx, transactionDepth |-> depth, eng |-> e,
   cmds |-> cmds, errs |-> errs, res |-> res, err |-> err,
   tx |-> tx, warned |-> warned]

startTransaction(inTx, depth, e, iso, f) ==
  IF ~IsolationOk(iso)
  THEN Outcome(inTx, depth, e, <<>>, <<>>, "rejected", "InvalidIsolationLevel", FALSE, FALSE)
  ELSE LET c == StartCmd(inTx, depth)
           r == Exec(e, c, f)
           \* the savepoint branch increments before the awaited exec
           d1 == IF ~inTx THEN (IF r.err = "ok" THEN 1 ELSE depth) ELSE depth + 1
           t1 == IF ~inTx THEN r.err = "ok" ELSE inTx
       IN IF r.err = "ok"
          THEN Outcome(t1, d1, r.eng, <<c>>, <<r.err>>, "resolved", "none", TRUE, FALSE)
          ELSE Outcome(t1, d1, r.eng, <<c>>, <<r.err>>, "rejected", r.err, FALSE, FALSE)

\* the depth === 1 branch of commitTransaction / rollbackTransaction
CloseOuter(inTx, depth, e, c, f) ==
  LET r == Exec(e, c, f) IN
    IF r.err = "ok" \/ NoTransactionActive(r.err)
    THEN Outcome(FALSE, 0, r.eng, <<c>>, <<r.err>>, "resolved", "none", FALSE, FALSE)
    ELSE Outcome(inTx, depth, r.eng, <<c>>, <<r.err>>, "rejected", r.err, FALSE, FALSE)

\* the depth > 1 branch: both the try and the catch decrement the depth
CloseNested(inTx, depth, e, cmds, fs) ==
  LET r == ExecSeq(e, cmds, fs) IN
    Outcome(inTx, DepthAfterClose(depth), r.eng, SubSeq(cmds, 1, Len(r.errs)),
            r.errs, "resolved", "none", FALSE, ~AllOk(r.errs))

commitTransaction(inTx, depth, e, fs) ==
  IF depth = 1 THEN CloseOuter(inTx, depth, e, OuterCommitCmd, fs[1])
  ELSE IF depth > 1 THEN CloseNested(inTx, depth, e, NestedCommitCmds(depth), fs)
  ELSE Outcome(inTx, depth, e, <<>>, <<>>, "resolved", "none", FALSE, FALSE)

rollbackTransaction(inTx, depth, e, fs) ==
  IF depth = 1 THEN CloseOuter(inTx, depth, e, OuterRollbackCmd, fs[1])
  ELSE IF depth > 1 THEN CloseNested(inTx, depth, e, NestedRollbackCmds(depth), fs)
  ELSE Outcome(inTx, depth, e, <<>>, <<>>, "resolved", "none", FALSE, FALSE)

\* PrismaWaSQLiteAdapter.dispose up to the release: ROLLBACK when inTransaction
\* is set, its error ignored, then both fields cleared
dispose(inTx, depth, e, f) ==
  IF inTx
  THEN LET r == Exec(e, CmdRollback, f) IN
         Outcome(FALSE, 0, r.eng, <<CmdRollback>>, <<r.err>>, "resolved", "none", FALSE, FALSE)
  ELSE Outcome(inTx, depth, e, <<>>, <<>>, "resolved", "none", FALSE, FALSE)

\* ------------------------------------------------ mutex-gated adapter (code)
\* Mutex.acquire for caller k: take the free gate or join the queue
MutexAcquire(lk, q, k) ==
  IF ~lk THEN [locked |-> TRUE, queue |-> q, granted |-> TRUE]
  ELSE [locked |-> lk, queue |-> Append(q, k), granted |-> FALSE]

\* the unlock closure: hand the gate to the oldest waiter, else mark it free
MutexUnlock(lk, q) ==
  IF Len(q) > 0 THEN [locked |-> lk, queue |-> Tail(q), next |-> Head(q)]
  ELSE [locked |-> FALSE, queue |-> q, next |-> 0]

\* WaSQLiteTransaction.commit / rollback of the factory: db.exec(c) in a try
\* whose finally calls release(); an engine error leaves through the finally
GateClose(e, c, f) ==
  LET r == Exec(e, c, f) IN
    [eng |-> r.eng, cmds |-> <<c>>, errs |-> <<r.err>>,
     res |-> IF r.err = "ok" THEN "resolved" ELSE "rejected",
     err |-> IF r.err = "ok" THEN "none" ELSE r.err]

\* variant of GateCommitCmd that rolls the transaction back
GateCommitCmd_RollsBack == CmdRollback

\* this.db.exec('COMMIT') and this.db.exec('ROLLBACK') of the transaction object
GateCommitCmd == CmdCommit
GateRollbackCmd == CmdRollback

\* ------------------------------------------- isFinished-flag adapter (code)
\* WaSQLiteTransaction.commit of part_000
FlagCommitTx(e, fin, f) ==
  IF fin THEN [eng |-> e, cmds |-> <<>>, errs |-> <<>>, res |-> "resolved",
               err |-> "none", isFinished |-> fin]
  ELSE LET r == Exec(e, CmdCommit, f) IN
    [eng |-> r.eng, cmds |-> <<CmdCommit>>, errs |-> <<r.err>>,
     res |-> IF r.err = "ok" THEN "resolved" ELSE "rejected",
     err |-> IF r.err = "ok" THEN "none" ELSE r.err, isFinished |-> TRUE]

\* WaSQLiteTransaction.rollback of part_000; hasAuto: the engine build offers
\* get_autocommit
FlagRollbackTx(e, fin, hasAuto, f) ==
  IF fin THEN [eng |-> e, cmds |-> <<>>, errs |-> <<>>, res |-> "resolved",
               err |-> "none", isFinished |-> fin]
  ELSE IF hasAuto /\ ~e.tx
  THEN [eng |-> e, cmds |-> <<>>, errs |-> <<>>, res |-> "resolved",
        err |-> "none", isFinished |-> TRUE]
  ELSE LET r == Exec(e, CmdRollback, f) IN
    [eng |-> r.eng, cmds |-> <<CmdRollback>>, errs |-> <<r.err>>,
     res |-> IF r.err = "ok" \/ NoTransactionActive(r.err) THEN "resolved" ELSE "rejected",
     err |-> IF r.err = "ok" \/ NoTransactionActive(r.err) THEN "none" ELSE r.err,
     isFinished |-> TRUE]

\* --------------------------------------------------------------- the state
\* a startTransaction call: "waiting" in the mutex queue, "granted" the gate,
\* "failed" at BEGIN, or "live": its transaction object exists; closed (kept
\* for the mutex-gated adapter): a commit or rollback of the object has completed
NewTx(state) == [state |-> state, isFinished |-> FALSE, closed |-> FALSE]

Top(s) == IF s = <<>> THEN 0 ELSE s[Len(s)]
\* s without h
Without(s, h) == SelectSeq(s, LAMBDA x : x # h)

\* record of a call: operation, transaction object (0 = none) and the level
\* it was opened at, depth at the call, whether the run was clean before the
\* call, whether the object was the innermost open one, isolation level,
\* commands issued and the engine's answer to each, settlement, warning flag,
\* rows returned
Call(op, h, lvl, d0, clean0, inner, iso, cmds, errs, res, err, warned, rows) ==
  [op |-> op, h |-> h, lvl |-> lvl, d0 |-> d0, clean0 |-> clean0, inner |-> inner,
   iso |-> iso, cmds |-> cmds, errs |-> errs, res |-> res, err |-> err,
   warned |-> warned, rows |-> rows]

NoIns == [r \in Rows |-> 0]

\* the parts not yet in use
NoIo == [impl |-> "main", calls |-> <<>>, stepper |-> 0]
\* a fresh database: no table, the engine's change counter at 0, nothing
\* executed, no call made
NoRaw == [created |-> FALSE, table |-> <<>>, changes |-> 0, script |-> <<>>,
          last |-> [op |-> "none", res |-> "resolved", ret |-> 0, own |-> 0, path |-> "none",
                    cols |-> <<>>, given |-> <<>>, columnNames |-> <<>>,
                    columnTypes |-> <<>>, rows |-> <<>>]]
\* the facade database after its constructor: open, the engine not in a
\* transaction, the native handle not released, no close() made, no statements
NoCdb == [open |-> TRUE, tx |-> FALSE, released |-> FALSE, closes |-> 0, stmts |-> <<>>,
          last |-> [op |-> "none", s |-> 0, nFin |-> 0, nStr |-> 0, again |-> FALSE,
                    engine |-> 0]]

\* no queryRaw / executeRaw call that the engine fails has been made
NoErrCall == [impl |-> "none", op |-> "none", path |-> "none", class |-> "none",
              how |-> "none", res |-> "none", wrapped |-> FALSE, kind |-> "none"]
\* the host before createBetterSqlite3Compatible is called: nothing on the
\* call stack, no engine operation in flight, no promise reaction queued
NoSync == [phase |-> "new", stack |-> "empty", method |-> "none", first |-> "none",
           done |-> FALSE, inflight |-> FALSE, jobs |-> <<>>, spins |-> 0,
           result |-> "none"]
\* no statement prepared on the facade yet. rows: what the statement produces
\* when stepped from the start; cursor: rows stepped over since the last
\* reset; it: the iterator handed out by iterate and what it has yielded
NoSt == [phase |-> "new", rows |-> <<>>, mode |-> "object", cursor |-> 0, calls |-> 0,
         last |-> [op |-> "none", out |-> <<>>],
         it |-> [rows |-> <<>>, pos |-> 0, yields |-> <<>>, all |-> <<>>]]
\* err: the failed queryRaw / executeRaw call and how it settled
\* sync: the JavaScript host running the facade (see SyncCall)
\* a factory after its constructor. instance: the cached adapter (0 = null);
\* adapters[a]: the connection handle adapter a holds; closes[c]: the close
\* calls made on handle c; log: the connect and dispose calls, each with its
\* adapter and whether the adapter's handle was still open at the call
NoFac(impl) ==
  [impl |-> impl, instance |-> 0, adapters |-> <<>>,
   closes |-> IF impl = "part" THEN <<>> ELSE <<0>>, log |-> <<>>]
\* st: the facade statement whose get / all / iterate bodies run
\* fac: the adapter factory
\* sql: the statement object made from an SQL text
\* mi: the statement-iterating adapter: the engine's change counter and the
\* performIO call made on it
\* txn: the facade database on which transaction functions are called: its
\* inTransaction field, its engine connection, the calls made and the last one
NoExt == [err |-> NoErrCall, sync |-> NoSync, st |-> NoSt, fac |-> NoFac("main"),
          sql |-> [made |-> FALSE, source |-> <<>>, reader |-> FALSE, readonly |-> FALSE],
          txn |-> [inTransaction |-> FALSE, eng |-> EngIdle({}), calls |-> 0,
                   last |-> [kind |-> "none", fn |-> "none", log |-> <<>>,
                             res |-> "none", err |-> "none", fnErr |-> "none"]],
          mi |-> [changes |-> 0, before |-> 0, made |-> FALSE, stmts |-> <<>>,
                  args |-> <<>>, binds |-> <<>>,
                  result |-> [columnNames |-> <<>>, rows |-> <<>>, changes |-> 0]]]

\* history of a clean run:
\*   frames    transaction objects the caller has not closed, innermost last
\*   objs[h]   for call h: fate ("none", "open", "committed", "rolledback"),
\*             level it was opened at, whether an insert ran while it was innermost
\*   preTx     table contents when the outermost transaction began
\*   ins[r]    level at which the open transaction holds its insert of r, else 0
\*   committed rows inserted by transactions committed at level 1
NoHist == [frames |-> <<>>, objs |-> <<>>, preTx |-> {}, ins |-> NoIns, committed |-> {}]
Obj(fate, level) == [fate |-> fate, level |-> level, wrote |-> FALSE]

Clean == accepted /\ lifo

Init ==
  /\ variant \in Variants
  /\ eng = EngIdle({})
  /\ faults = MaxFaults
  /\ inTransaction = FALSE
  /\ transactionDepth = 0
  /\ currentTransaction = 0
  /\ txs = <<>>
  /\ locked = FALSE
  /\ queue = <<>>
  /\ accepted = TRUE
  /\ lifo = TRUE
  /\ hist = NoHist
  /\ spNames = [d \in 1..MaxDepth |-> 0]
  /\ last = Call("none", 0, 0, 0, TRUE, FALSE, "NONE", <<>>, <<>>, "resolved", "none",
                 FALSE, {})
  /\ conn = "open"
  /\ conc = [calls |-> <<>>, log |-> <<>>]
  /\ io \in IF variant = "io" THEN {[NoIo EXCEPT !.impl = i] : i \in {"main", "simple", "part"}}
           ELSE {NoIo}
  /\ raw = NoRaw
  /\ cdb = NoCdb
  /\ ext \in IF variant = "fac"
            THEN {[NoExt EXCEPT !.fac = NoFac(i)] : i \in {"main", "simple", "factory", "part"}}
            ELSE IF variant = "multi"
            \* a fresh connection (or one that ran only DDL and SELECT), or
            \* one whose last data change was a one-row INSERT
            THEN {[NoExt EXCEPT !.mi.changes = c] : c \in {0, 1}}
            ELSE {NoExt}

Handles == 1..Len(txs)
\* transaction objects that exist
Created == {h \in Handles : txs[h].state = "live"}

\* The history is followed only while the run is clean: the engine accepted
\* every command and every close was on the innermost open object. Once the
\* run is not clean the history is dropped.  a: accepted after the step,
\* l: lifo after the step, h: the history after the step of a clean run
Track(a, l, h) ==
  /\ accepted' = a
  /\ lifo' = l
  /\ hist' = IF a /\ l THEN h ELSE NoHist

\* history after a startTransaction step that opened object k (ok) or failed
HistOpen(k, ok) ==
  LET objs == IF Len(hist.objs) >= k THEN hist.objs
              ELSE Append(hist.objs, Obj("none", 0))
  IN IF ~ok THEN [hist EXCEPT !.objs = objs]
     ELSE [hist EXCEPT !.frames = Append(hist.frames, k),
                       !.objs = [objs EXCEPT ![k] = Obj("open", Len(hist.frames) + 1)],
                       !.preTx = IF hist.frames = <<>> THEN eng.db ELSE hist.preTx,
                       !.ins = IF hist.frames = <<>> THEN NoIns ELSE hist.ins]

\* history after a resolved commit or rollback on the innermost object h
HistClose(op, h) ==
  LET lvl == Len(hist.frames) IN
  [hist EXCEPT
     !.frames = Without(hist.frames, h),
     !.objs = [hist.objs EXCEPT ![h].fate = IF op = "commit" THEN "committed"
                                            ELSE "rolledback"],
     !.ins = IF lvl = 1 THEN NoIns
             ELSE [r \in Rows |-> IF hist.ins[r] < lvl THEN hist.ins[r]
                                  ELSE IF op = "commit" THEN lvl - 1 ELSE 0],
     !.committed = IF lvl = 1 /\ op = "commit"
                   THEN hist.committed \cup {r \in Rows : hist.ins[r] > 0}
                   ELSE hist.committed]

\* history and call record of a commit or rollback call on object h
Closed(op, h, r) ==
  /\ Track(accepted /\ AllOk(r.errs), lifo /\ Top(hist.frames) = h,
           IF r.res = "resolved" THEN HistClose(op, h) ELSE hist)
  /\ last' = Call(op, h, IF Clean THEN hist.objs[h].level ELSE 0, transactionDepth,
                  Clean, Top(hist.frames) = h, "NONE", r.cmds, r.errs, r.res, r.err,
                  r.warned, {})

\* call record of a startTransaction call that settled
Started(h, iso, cmds, errs, res, err) ==
  last' = Call("start", h, 0, transactionDepth, Clean, TRUE, iso, cmds, errs, res, err,
               FALSE, {})

\* ------------------------------------------------ queryRaw / executeRaw
\* executeRaw of an INSERT of key r on the connection (adapter or transaction
\* object: both run on the one connection)
ExecuteRaw(r, mode) ==
  /\ variant \in Sequential
  /\ conn = "open"
  /\ mode = "abort" => faults > 0
  /\ LET x == Insert(eng, r, mode)
         t == Top(hist.frames)
     IN /\ eng' = x.eng
        /\ faults' = IF mode = "abort" THEN faults - 1 ELSE faults
        /\ Track(accepted /\ mode # "abort", lifo,
                 IF x.err = "ok" /\ t # 0
                 THEN [hist EXCEPT !.ins[r] = Len(hist.frames), !.objs[t].wrote = TRUE]
                 ELSE hist)
        /\ last' = Call("insert", 0, 0, transactionDepth, Clean, TRUE, "NONE", <<>>, <<>>,
                        IF x.err = "ok" THEN "resolved" ELSE "rejected",
                        IF x.err = "ok" THEN "none" ELSE x.err, FALSE, {})
  /\ UNCHANGED <<variant, conn, aux, inTransaction, transactionDepth, currentTransaction,
                 txs, locked, queue, spNames>>

\* queryRaw of SELECT * on the connection
QueryRaw ==
  /\ variant \in Sequential
  /\ conn = "open"
  /\ last' = Call("query", 0, 0, transactionDepth, Clean, TRUE, "NONE", <<>>, <<>>,
                  "resolved", "none", FALSE, Select(eng))
  /\ UNCHANGED <<variant, conn, aux, eng, faults, inTransaction, transactionDepth,
                 currentTransaction, txs, locked, queue, accepted, lifo, hist, spNames>>

\* ------------------------------------------ depth-tracking adapter actions
DepthStart(iso, f) ==
  /\ conn = "open"
  /\ variant = "depth"
  /\ Len(txs) < MaxHandles
  /\ transactionDepth < MaxDepth
  /\ f => (faults > 0 /\ IsolationOk(iso))
  /\ LET r == startTransaction(inTransaction, transactionDepth, eng, iso, f)
         h == Len(txs) + 1
     IN /\ inTransaction' = r.inTransaction
        /\ transactionDepth' = r.transactionDepth
        /\ eng' = r.eng
        /\ faults' = faults - NumFaults(r.errs)
        /\ txs' = IF r.tx THEN Append(txs, NewTx("live")) ELSE txs
        /\ currentTransaction' = IF r.tx THEN h ELSE currentTransaction
        /\ Track(accepted /\ AllOk(r.errs), lifo, IF r.tx THEN HistOpen(h, TRUE) ELSE hist)
        /\ spNames' = IF r.cmds # <<>> /\ r.cmds[1].op = "SAVEPOINT"
                      THEN [spNames EXCEPT ![r.transactionDepth] = r.cmds[1].name]
                      ELSE spNames
        /\ Started(IF r.tx THEN h ELSE 0, iso, r.cmds, r.errs, r.res, r.err)
  /\ UNCHANGED <<variant, conn, aux, locked, queue>>

DepthClose(op, h, r) ==
  /\ conn = "open"
  /\ inTransaction' = r.inTransaction
  /\ transactionDepth' = r.transactionDepth
  /\ eng' = r.eng
  /\ faults' = faults - NumFaults(r.errs)
  /\ Closed(op, h, r)
  /\ UNCHANGED <<variant, conn, aux, currentTransaction, txs, locked, queue, spNames>>

\* faults a handler can be given: at most one per command
FaultsFor(n) ==
  {fs \in {<<FALSE, FALSE>>, <<TRUE, FALSE>>, <<FALSE, TRUE>>} :
     /\ fs[1] => (faults > 0 /\ n >= 1)
     /\ fs[2] => (faults > 0 /\ n >= 2)}

\* WaSQLiteTransaction.commit on transaction object h
DepthCommit(h, fs) ==
  /\ variant = "depth"
  /\ h \in Created
  /\ LET r == commitTransaction(inTransaction, transactionDepth, eng, fs)
     IN NumFaults(r.errs) = Cardinality({i \in 1..2 : fs[i]}) /\ DepthClose("commit", h, r)

\* WaSQLiteTransaction.rollback on transaction object h
DepthRollback(h, fs) ==
  /\ variant = "depth"
  /\ h \in Created
  /\ LET r == rollbackTransaction(inTransaction, transactionDepth, eng, fs)
     IN NumFaults(r.errs) = Cardinality({i \in 1..2 : fs[i]}) /\ DepthClose("rollback", h, r)

\* --------------------------------------------- mutex-gated adapter actions
\* startTransaction up to `await this.mutex.acquire()`
GateStart(iso) ==
  /\ conn = "open"
  /\ variant = "gate"
  /\ Len(txs) < MaxGateCalls
  /\ IF ~IsolationOk(iso)
     THEN /\ Started(0, iso, <<>>, <<>>, "rejected", "InvalidIsolationLevel")
          /\ UNCHANGED <<txs, locked, queue, accepted, lifo, hist>>
     ELSE LET k == Len(txs) + 1
              m == MutexAcquire(locked, queue, k)
          IN /\ locked' = m.locked
             /\ queue' = m.queue
             /\ txs' = Append(txs, NewTx(IF m.granted THEN "granted" ELSE "waiting"))
             /\ Track(accepted, lifo, HistOpen(k, FALSE))
             /\ last' = Call("acquire", 0, 0, transactionDepth, Clean, TRUE, iso, <<>>,
                             <<>>, "pending", "none", FALSE, {})
  /\ UNCHANGED <<variant, conn, aux, eng, faults, inTransaction, transactionDepth,
                 currentTransaction, spNames>>

\* startTransaction after the gate was granted: db.exec('BEGIN'), then the
\* transaction object; a failing BEGIN goes to handleError
GateBegin(k, f) ==
  /\ conn = "open"
  /\ variant = "gate"
  /\ k \in Handles /\ txs[k].state = "granted"
  /\ f => faults > 0
  /\ LET r == Exec(eng, CmdBegin, f) IN
       /\ eng' = r.eng
       /\ faults' = IF f THEN faults - 1 ELSE faults
       /\ txs' = [txs EXCEPT ![k].state = IF r.err = "ok" THEN "live" ELSE "failed"]
       /\ Track(accepted /\ r.err = "ok", lifo, HistOpen(k, r.err = "ok"))
       /\ Started(IF r.err = "ok" THEN k ELSE 0, "NONE", <<CmdBegin>>, <<r.err>>,
                  IF r.err = "ok" THEN "resolved" ELSE "rejected",
                  IF r.err = "ok" THEN "none" ELSE r.err)
  /\ UNCHANGED <<variant, conn, aux, inTransaction, transactionDepth, currentTransaction,
                 locked, queue, spNames>>

GateFinish(op, k, c, f) ==
  /\ conn = "open"
  /\ variant = "gate"
  /\ k \in Created
  /\ f => faults > 0
  /\ LET r == GateClose(eng, c, f)
         u == MutexUnlock(locked, queue)
     IN /\ eng' = r.eng
        /\ faults' = faults - NumFaults(r.errs)
        /\ locked' = u.locked
        /\ queue' = u.queue
        /\ txs' = [h \in Handles |->
                    IF h = u.next THEN [txs[h] EXCEPT !.state = "granted"]
                    ELSE IF h = k THEN [txs[h] EXCEPT !.closed = TRUE] ELSE txs[h]]
        /\ Closed(op, k, r @@ [warned |-> FALSE])
  /\ UNCHANGED <<variant, conn, aux, inTransaction, transactionDepth, currentTransaction,
                 spNames>>

GateCommit(k, f) == GateFinish("commit", k, GateCommitCmd, f)
GateRollback(k, f) == GateFinish("rollback", k, GateRollbackCmd, f)

\* ------------------------------------------ isFinished-flag adapter actions
FlagStart(iso, f) ==
  /\ conn = "open"
  /\ variant = "flag"
  /\ Len(txs) < MaxHandles
  /\ f => (faults > 0 /\ IsolationOk(iso))
  /\ IF ~IsolationOk(iso)
     THEN /\ Started(0, iso, <<>>, <<>>, "rejected", "InvalidIsolationLevel")
          /\ UNCHANGED <<eng, faults, txs, accepted, lifo, hist>>
     ELSE LET r == Exec(eng, CmdBegin, f)
              k == Len(txs) + 1
          IN /\ eng' = r.eng
             /\ faults' = IF f THEN faults - 1 ELSE faults
             /\ txs' = IF r.err = "ok" THEN Append(txs, NewTx("live")) ELSE txs
             /\ Track(accepted /\ r.err = "ok", lifo,
                      IF r.err = "ok" THEN HistOpen(k, TRUE) ELSE hist)
             /\ Started(IF r.err = "ok" THEN k ELSE 0, iso, <<CmdBegin>>, <<r.err>>,
                        IF r.err = "ok" THEN "resolved" ELSE "rejected",
                        IF r.err = "ok" THEN "none" ELSE r.err)
  /\ UNCHANGED <<variant, conn, aux, inTransaction, transactionDepth, currentTransaction,
                 locked, queue, spNames>>

FlagFinish(op, k, r) ==
  /\ conn = "open"
  /\ eng' = r.eng
  /\ faults' = faults - NumFaults(r.errs)
  /\ txs' = [txs EXCEPT ![k].isFinished = r.isFinished]
  /\ Closed(op, k, r @@ [warned |-> FALSE])
  /\ UNCHANGED <<variant, conn, aux, inTransaction, transactionDepth, currentTransaction,
                 locked, queue, spNames>>

FlagCommit(k, f) ==
  /\ variant = "flag"
  /\ k \in Created
  /\ f => faults > 0
  /\ LET r == FlagCommitTx(eng, txs[k].isFinished, f)
     IN NumFaults(r.errs) = (IF f THEN 1 ELSE 0) /\ FlagFinish("commit", k, r)

FlagRollback(k, hasAuto, f) ==
  /\ variant = "flag"
  /\ k \in Created
  /\ f => faults > 0
  /\ LET r == FlagRollbackTx(eng, txs[k].isFinished, hasAuto, f)
     IN NumFaults(r.errs) = (IF f THEN 1 ELSE 0) /\ FlagFinish("rollback", k, r)

\* ------------------------------- depth-tracking adapter, overlapping calls
\* Each await of sqlite3.exec splits a handler: the part up to the await runs
\* when the call is made (the engine is handed the command there), the part
\* after it when the call is resumed; other calls may run in between.
\* A call: its handler, the branch it took, the savepoint level it computed,
\* the engine's answer it is waiting to read, and how it has settled
PCall(op, br, name, err, st) == [op |-> op, br |-> br, name |-> name, err |-> err, st |-> st]

\* the handler up to its first await, for call number i
ConcCall(op) ==
  /\ variant = "conc"
  /\ conn = "open"
  /\ Len(conc.calls) < MaxCalls
  /\ LET d == transactionDepth
         c == IF op = "start" THEN StartCmd(inTransaction, d)
              ELSE IF op = "commit"
                   THEN (IF d = 1 THEN OuterCommitCmd ELSE NestedCommitCmds(d)[1])
                   ELSE (IF d = 1 THEN OuterRollbackCmd ELSE NestedRollbackCmds(d)[1])
         br == IF op = "start" THEN (IF ~inTransaction THEN "begin" ELSE "savepoint")
               ELSE IF d = 1 THEN "outer"
               ELSE IF op = "commit" THEN "nested" ELSE "nested1"
         r == Exec(eng, c, FALSE)
     IN IF op # "start" /\ d < 1
        THEN \* neither branch is taken: the call resolves without a command
             /\ conc' = [conc EXCEPT !.calls = Append(@, PCall(op, "none", 0, "ok", "resolved"))]
             /\ UNCHANGED <<eng, transactionDepth>>
        ELSE /\ eng' = r.eng
             /\ transactionDepth' = IF br = "savepoint" THEN d + 1 ELSE d
             /\ conc' = [calls |-> Append(conc.calls, PCall(op, br, d, r.err, "pending")),
                         log |-> Append(conc.log, Len(conc.calls) + 1)]
  /\ UNCHANGED <<variant, conn, faults, inTransaction, currentTransaction, txs, locked,
                 queue, accepted, lifo, hist, spNames, last, io, raw, cdb, ext>>

\* call i continues after its await
ConcResume(i) ==
  /\ variant = "conc"
  /\ conn = "open"
  /\ i \in 1..Len(conc.calls)
  /\ conc.calls[i].st = "pending"
  /\ LET k == conc.calls[i]
         settle(st) == [conc EXCEPT !.calls[i] = PCall(k.op, "none", 0, "ok", st)]
     IN CASE k.br = "begin" ->
               /\ inTransaction' = (IF k.err = "ok" THEN TRUE ELSE inTransaction)
               /\ transactionDepth' = (IF k.err = "ok" THEN 1 ELSE transactionDepth)
               /\ conc' = settle(IF k.err = "ok" THEN "resolved" ELSE "rejected")
               /\ UNCHANGED eng
          [] k.br = "savepoint" ->
               /\ conc' = settle(IF k.err = "ok" THEN "resolved" ELSE "rejected")
               /\ UNCHANGED <<eng, inTransaction, transactionDepth>>
          [] k.br = "outer" ->
               LET done == k.err = "ok" \/ NoTransactionActive(k.err) IN
               /\ inTransaction' = (IF done THEN FALSE ELSE inTransaction)
               /\ transactionDepth' = (IF done THEN 0 ELSE transactionDepth)
               /\ conc' = settle(IF done THEN "resolved" ELSE "rejected")
               /\ UNCHANGED eng
          [] k.br = "nested1" /\ k.err = "ok" ->
               LET r == Exec(eng, NestedRollbackCmds(k.name)[2], FALSE) IN
               /\ eng' = r.eng
               /\ conc' = [calls |-> [conc.calls EXCEPT ![i].br = "nested2", ![i].err = r.err],
                           log |-> Append(conc.log, i)]
               /\ UNCHANGED <<inTransaction, transactionDepth>>
          [] OTHER ->
               \* the try or the catch of a savepoint branch: both decrement
               /\ transactionDepth' = DepthAfterClose(transactionDepth)
               /\ conc' = settle("resolved")
               /\ UNCHANGED <<eng, inTransaction>>
  /\ UNCHANGED <<variant, conn, faults, currentTransaction, txs, locked, queue,
                 accepted, lifo, hist, spNames, last, io, raw, cdb, ext>>

\* the adapter fields and engine after running handler op alone, to completion
SerialStep(st, op) ==
  LET r == IF op = "start"
           THEN startTransaction(st.inTransaction, st.transactionDepth, st.eng, "NONE", FALSE)
           ELSE IF op = "commit"
           THEN commitTransaction(st.inTransaction, st.transactionDepth, st.eng,
                                  <<FALSE, FALSE>>)
           ELSE rollbackTransaction(st.inTransaction, st.transactionDepth, st.eng,
                                    <<FALSE, FALSE>>)
  IN [inTransaction |-> r.inTransaction, transactionDepth |-> r.transactionDepth,
      eng |-> r.eng]

RECURSIVE SerialRun(_, _)
SerialRun(st, ops) ==
  IF ops = <<>> THEN st ELSE SerialRun(SerialStep(st, Head(ops)), Tail(ops))

\* the depths that the calls made so far can end with when run one at a time
SerialDepths ==
  LET n == Len(conc.calls)
      perms == {p \in [1..n -> 1..n] : \A a, b \in 1..n : p[a] = p[b] => a = b}
      st0 == [inTransaction |-> FALSE, transactionDepth |-> 0, eng |-> EngIdle({})]
  IN {SerialRun(st0, [a \in 1..n |-> conc.calls[p[a]].op]).transactionDepth : p \in perms}

\* ------------------------------------- queryRaw / executeRaw, statement path
\* The three implementations of the prepared-statement path: performIO of
\* wa-sqlite-adapter.ts ("main"), queryRaw / executeRaw of
\* wa-sqlite-adapter-simple.ts ("simple") and of part_000 ("part").
Impls == {"main", "simple", "part"}

\* what prepare_v2 does: hands back a statement, hands back null, or rejects
PrepareOutcomes == {"stmt", "null", "reject"}

\* is the string buffer released when prepare_v2 did not give a statement:
\* main and part release it in their finally; simple awaits prepare_v2 outside
\* any try and releases only in its `!prepared` branch
StrFinishedAfterPrepare(impl, out) ==
  IF impl = "simple" THEN out = "null" ELSE TRUE

\* does executeRaw take the result code of its step for a success
StepAccepted(impl, code) ==
  IF impl = "part" THEN code = "DONE" ELSE code \in {"DONE", "ROW"}

\* a call: its kind, where it is waiting, native resources it
\* acquired and released, the result code of its last step, rows its statement
\* has yet to produce, whether another call's step ran after its own last
\* step, whether it read the change counter then, how it will settle once
\* finalized, how it has settled
IoCallRec(kind, left) ==
  [kind |-> kind, pc |-> "prepare", strAcq |-> 1, strRel |-> 0,
   stmtAcq |-> 0, stmtRel |-> 0, code |-> "none", left |-> left,
   dirty |-> FALSE, staleRead |-> FALSE, pend |-> "none", res |-> "pending"]

\* a call that has settled with res
IoSettled(k, res) ==
  [k EXCEPT !.pc = "done", !.res = res, !.code = "none", !.left = 0, !.dirty = FALSE,
            !.pend = "none"]

\* sqlite3.step of call k reaches the engine: the statement gives a row while
\* rows are left, else it is done; fail: the engine rejects the step
IoStep(k, fail) ==
  [k EXCEPT !.pc = "step", !.dirty = FALSE,
            !.code = IF fail THEN "ERROR" ELSE IF k.left > 0 THEN "ROW" ELSE "DONE",
            !.left = IF ~fail /\ k.left > 0 THEN @ - 1 ELSE @]

\* the finally block is entered with a statement: finalize is awaited
IoFinally(k, pend) == [k EXCEPT !.pc = "finalize", !.pend = pend, !.left = 0, !.dirty = FALSE]

\* a step of call i ran: every executeRaw call waiting to resume after its own
\* step will read a change counter that a later statement may have set
IoOthersDirty(calls, i) ==
  [j \in DOMAIN calls |-> IF j # i /\ calls[j].kind = "execute" /\ calls[j].pc = "step"
                                  THEN [calls[j] EXCEPT !.dirty = TRUE] ELSE calls[j]]

\* queryRaw / executeRaw up to the await of prepare_v2: str_new, prepare_v2
IoCall(kind, left) ==
  /\ variant = "io"
  /\ conn = "open"
  /\ Len(io.calls) < MaxIoCalls
  /\ io' = [io EXCEPT !.calls = Append(io.calls, IoCallRec(kind, left)), !.stepper = 0]
  /\ UNCHANGED <<variant, conn, eng, faults, inTransaction, transactionDepth,
                 currentTransaction, txs, locked, queue, accepted, lifo, hist,
                 spNames, last, conc, raw, cdb, ext>>

\* call i resumes after prepare_v2 settled with `out`; bindFails: a bind call
\* throws; stepFails: the engine rejects the first step
IoPrepared(i, out, bindFails, stepFails) ==
  /\ variant = "io"
  /\ i \in 1..Len(io.calls)
  /\ io.calls[i].pc = "prepare"
  /\ out # "stmt" => (~bindFails /\ ~stepFails)
  /\ bindFails => ~stepFails
  /\ LET k == io.calls[i] IN
       io' = [impl |-> io.impl, calls |->
         IF out # "stmt"
         THEN [io.calls EXCEPT ![i] =
                 IoSettled([k EXCEPT !.strRel = IF StrFinishedAfterPrepare(io.impl, out)
                                                THEN @ + 1 ELSE @], "rejected")]
         ELSE IF bindFails
         THEN [io.calls EXCEPT ![i] = IoFinally([k EXCEPT !.stmtAcq = 1], "rejected")]
         ELSE [IoOthersDirty(io.calls, i) EXCEPT
                 ![i] = IoStep([k EXCEPT !.stmtAcq = 1], stepFails)],
              stepper |-> IF out = "stmt" /\ ~bindFails THEN i ELSE 0]
  /\ UNCHANGED <<variant, conn, eng, faults, inTransaction, transactionDepth,
                 currentTransaction, txs, locked, queue, accepted, lifo, hist,
                 spNames, last, conc, raw, cdb, ext>>

\* call i resumes after a step; stepFails: the engine rejects the next step
IoStepped(i, stepFails) ==
  /\ variant = "io"
  /\ i \in 1..Len(io.calls)
  /\ io.calls[i].pc = "step"
  /\ LET k == io.calls[i] IN
       /\ stepFails => (k.kind = "query" /\ k.code = "ROW")
       /\ io' = [impl |-> io.impl, calls |->
            IF k.code = "ERROR"
            THEN [io.calls EXCEPT ![i] = IoFinally(k, "rejected")]
            ELSE IF k.kind = "execute"
            THEN \* the result code is tested, then sqlite3.changes(db) is read
                 [io.calls EXCEPT ![i] =
                    IF StepAccepted(io.impl, k.code)
                    THEN IoFinally([k EXCEPT !.staleRead = k.dirty], "resolved")
                    ELSE IoFinally(k, "rejected")]
            ELSE IF k.code = "ROW"
            THEN [IoOthersDirty(io.calls, i) EXCEPT ![i] = IoStep(k, stepFails)]
            ELSE [io.calls EXCEPT ![i] = IoFinally(k, "resolved")],
                 stepper |-> IF k.kind = "query" /\ k.code = "ROW" THEN i ELSE 0]
  /\ UNCHANGED <<variant, conn, eng, faults, inTransaction, transactionDepth,
                 currentTransaction, txs, locked, queue, accepted, lifo, hist,
                 spNames, last, conc, raw, cdb, ext>>

\* call i resumes after finalize: str_finish, then the call settles
IoFinalized(i) ==
  /\ variant = "io"
  /\ i \in 1..Len(io.calls)
  /\ io.calls[i].pc = "finalize"
  /\ io' = [impl |-> io.impl, calls |-> [io.calls EXCEPT ![i] =
              IoSettled([@ EXCEPT !.stmtRel = @ + 1, !.strRel = @ + 1], io.calls[i].pend)],
            stepper |-> 0]
  /\ UNCHANGED <<variant, conn, eng, faults, inTransaction, transactionDepth,
                 currentTransaction, txs, locked, queue, accepted, lifo, hist,
                 spNames, last, conc, raw, cdb, ext>>

\* the statement of call a is being stepped: it has given a row and is not
\* finalized
IoActive(a) ==
  /\ io.calls[a].pc \in {"step", "finalize"}
  /\ io.calls[a].code = "ROW" /\ io.calls[a].stmtRel = 0

\* ------------------------------------------------ better-sqlite3 facade
\* The facade methods are modelled by their async bodies (asyncRun,
\* asyncClose, ...) run to completion.
\* a WaSQLiteStatement: whether this.stmt and this.str hold a handle, and
\* (history) whether finalize() ran with nothing acquired since
NewStmt == [stmt |-> FALSE, str |-> FALSE, fin |-> FALSE]

\* variant of Finalize that forgets `this.stmt = null`
Finalize_KeepsStmt(st) ==
  [st |-> [stmt |-> st.stmt, str |-> FALSE, fin |-> TRUE],
   nFin |-> IF st.stmt THEN 1 ELSE 0, nStr |-> IF st.str THEN 1 ELSE 0]

\* WaSQLiteStatement.finalize: the statement after it, and the number of
\* sqlite3.finalize and sqlite3.str_finish calls it made
Finalize(st) ==
  [st |-> [stmt |-> FALSE, str |-> FALSE, fin |-> TRUE],
   nFin |-> IF st.stmt THEN 1 ELSE 0, nStr |-> IF st.str THEN 1 ELSE 0]

\* prepareStatement: nothing when this.stmt is set; else str_new and
\* prepare_v2, which gives a statement (out = "stmt") or fails
PrepareStatement(st, out) ==
  IF st.stmt THEN st
  ELSE [stmt |-> out = "stmt", str |-> TRUE, fin |-> FALSE]

CdbLast(op, s, nFin, nStr, again, engine) ==
  [op |-> op, s |-> s, nFin |-> nFin, nStr |-> nStr, again |-> again, engine |-> engine]

CdbUnchanged ==
  UNCHANGED <<variant, conn, eng, faults, inTransaction, transactionDepth,
              currentTransaction, txs, locked, queue, accepted, lifo, hist,
              spNames, last, conc, io, raw, ext>>

\* Database.prepare: a new statement object, nothing prepared yet
CdbPrepare ==
  /\ variant = "compat"
  /\ cdb.open
  /\ Len(cdb.stmts) < MaxStmts
  /\ cdb' = [cdb EXCEPT !.stmts = Append(@, NewStmt),
                        !.last = CdbLast("prepare", Len(cdb.stmts) + 1, 0, 0, FALSE, 0)]
  /\ CdbUnchanged

\* Statement.run on statement s: prepare, bind, step, read the counters,
\* reset; any error finalizes the statement and is rethrown.
\* out: what prepare_v2 does; stepFails: the step is rejected
CdbRun(s, out, stepFails) ==
  /\ variant = "compat"
  /\ cdb.open
  /\ s \in 1..Len(cdb.stmts)
  /\ cdb.stmts[s].stmt => out = "stmt"
  /\ stepFails => out = "stmt"
  /\ LET p == PrepareStatement(cdb.stmts[s], out)
         failed == ~p.stmt \/ stepFails
         f == Finalize(p)
     IN cdb' = [cdb EXCEPT !.stmts[s] = IF failed THEN f.st ELSE p,
                           !.last = IF failed THEN CdbLast("run", s, f.nFin, f.nStr, FALSE, 0)
                                    ELSE CdbLast("run", s, 0, 0, FALSE, 0)]
  /\ CdbUnchanged

\* finalize() of statement s
CdbFinalize(s) ==
  /\ variant = "compat"
  /\ s \in 1..Len(cdb.stmts)
  /\ LET f == Finalize(cdb.stmts[s]) IN
       cdb' = [cdb EXCEPT !.stmts[s] = f.st,
                          !.last = CdbLast("finalize", s, f.nFin, f.nStr, cdb.stmts[s].fin, 0)]
  /\ CdbUnchanged

\* Database.exec of BEGIN (begin = TRUE) or COMMIT
CdbExec(begin) ==
  /\ variant = "compat"
  /\ cdb.open
  /\ cdb.tx # begin
  /\ cdb' = [cdb EXCEPT !.tx = begin, !.last = CdbLast("exec", 0, 0, 0, FALSE, 1)]
  /\ CdbUnchanged

\* what Database.close hands to the engine: sqlite3.close(db) and nothing else
CloseCalls == <<"close">>

\* Database.close: sqlite3.close(this.db); when that does not throw,
\* this.open = false. The engine refuses to close a connection with statements
\* that are not finalized.
CdbClose ==
  /\ variant = "compat"
  /\ cdb.closes < 2
  /\ LET busy == \E t \in 1..Len(cdb.stmts) : cdb.stmts[t].stmt IN
       cdb' = [cdb EXCEPT !.closes = @ + 1,
                          !.open = IF busy THEN @ ELSE FALSE,
                          !.released = IF busy THEN @ ELSE TRUE,
                          !.last = CdbLast("close", 0, 0, 0, ~cdb.open, Len(CloseCalls))]
  /\ CdbUnchanged

\* ------------------------------------------- result sets (wa-sqlite-adapter.ts)
\* kinds of JavaScript values the engine hands back for a column
Kinds == {"null", "int", "text"}
\* the column lists of the queries that are converted; "1" is what `SELECT 1`
\* names its column
ColLists == {<<"a">>, <<"a", "b">>, <<"a", "a">>, <<"b", "1">>}

\* the ColumnTypeEnum that getColumnTypeEnums picks for a first-row value
InferTag(k) ==
  CASE k = "null" -> "Text"
    [] k = "int" -> "Int32"
    [] k = "double" -> "Double"
    [] k = "text" -> "Text"
    [] k = "bigint" -> "Int64"
    [] k \in {"u8", "array"} -> "Bytes"
    [] k = "date" -> "DateTime"
    [] k = "boolean" -> "Boolean"
    [] OTHER -> "Text"

\* an object key that JavaScript treats as an array index
IsIndexKey(n) == n = "1"

\* the distinct elements of q in order of first occurrence
RECURSIVE Dedup(_)
Dedup(q) ==
  IF q = <<>> THEN <<>>
  ELSE LET d == Dedup(SubSeq(q, 1, Len(q) - 1)) IN
       IF \E i \in 1..Len(d) : d[i] = q[Len(q)] THEN d ELSE Append(d, q[Len(q)])

\* getColumnTypeEnums followed by Object.values: the function fills a record
\* keyed by column name (a later column of the same name overwrites the tag),
\* and Object.values lists index-like keys first, then the others in the
\* order they were first set
ColumnTypeValues(columnNames, rows) ==
  LET tagAt(i) == IF rows = <<>> THEN "Text" ELSE InferTag(rows[1][i])
      lastIdx(n) == CHOOSE i \in 1..Len(columnNames) :
                      /\ columnNames[i] = n
                      /\ \A j \in 1..Len(columnNames) : columnNames[j] = n => j <= i
      keys == Dedup(columnNames)
      order == SelectSeq(keys, IsIndexKey) \o SelectSeq(keys, LAMBDA n : ~IsIndexKey(n))
  IN [i \in 1..Len(order) |-> tagAt(lastIdx(order[i]))]

\* mapRow for one value: type is "none" when columnTypes has no such index
MapValue(k, type) ==
  IF k = "null" THEN "null"
  ELSE IF type = "Bytes" /\ k = "array" THEN "u8"
  ELSE IF type = "Int64" /\ k \in {"int", "double"} THEN "bigint"
  ELSE k

mapRow(row, columnTypes) ==
  [i \in 1..Len(row) |->
     MapValue(row[i], IF i <= Len(columnTypes) THEN columnTypes[i] ELSE "none")]

\* the column names performIO returns: the no-argument path learns them from
\* the callback of the first row, the statement path from column_name
IoColumnNames(path, cols, rows) ==
  IF path = "exec" /\ rows = <<>> THEN <<>> ELSE cols

\* convertData
convertData(columnNames, results) ==
  LET columnTypes == ColumnTypeValues(columnNames, results) IN
    [columnNames |-> columnNames, columnTypes |-> columnTypes,
     rows |-> [r \in 1..Len(results) |-> mapRow(results[r], columnTypes)]]

\* queryRaw whose statement has columns cols and gives the rows `given`
QueryResult(path, cols, given) ==
  LET d == convertData(IoColumnNames(path, cols, given), given) IN
    [op |-> "query", res |-> "resolved", ret |-> 0, own |-> 0, path |-> path,
     cols |-> cols, given |-> given, columnNames |-> d.columnNames,
     columnTypes |-> d.columnTypes, rows |-> d.rows]

RawUnchanged ==
  UNCHANGED <<variant, conn, eng, faults, inTransaction, transactionDepth,
              currentTransaction, txs, locked, queue, accepted, lifo, hist,
              spNames, last, conc, io, cdb, ext>>

\* the query results with columns cols: up to MaxResultRows rows
ResultsOf(cols) ==
  UNION {[1..n -> [1..Len(cols) -> Kinds]] : n \in 0..MaxResultRows}

\* queryRaw, the first call on the connection, of a statement with columns
\* cols on the path for no arguments ("exec") or for arguments ("stmt")
TypesQuery ==
  /\ variant = "types"
  /\ raw.last.op = "none"
  /\ \E path \in {"exec", "stmt"}, cols \in ColLists :
       \E given \in ResultsOf(cols) :
         raw' = [raw EXCEPT !.last = QueryResult(path, cols, given)]
  /\ RawUnchanged

\* ------------------------------------- executeRaw / queryRaw on a fresh database
\* sqlite3.changes after a statement: INSERT sets the counter, no other kind
\* of statement touches it
ChangesAfter(changes, stmt, ok) ==
  IF stmt = "insert" /\ ok THEN 1 ELSE changes

\* executeRaw of CREATE TABLE foo(id TEXT PRIMARY KEY) ("create"), of another
\* schema statement ("ddl") or of INSERT INTO foo VALUES (?) with value v
RawExecute(stmt, v) ==
  /\ variant = "raw"
  /\ Len(raw.script) < MaxScript
  /\ stmt # "insert" => v = 1
  /\ LET ok == CASE stmt = "create" -> ~raw.created
                 [] stmt = "ddl" -> TRUE
                 [] OTHER -> raw.created /\ \A i \in 1..Len(raw.table) : raw.table[i] # v
         changes == ChangesAfter(raw.changes, stmt, ok)
     IN raw' = [created |-> raw.created \/ (stmt = "create"),
                table |-> IF stmt = "insert" /\ ok THEN Append(raw.table, v) ELSE raw.table,
                changes |-> changes,
                script |-> Append(raw.script, stmt),
                last |-> [NoRaw.last EXCEPT
                            !.op = "execute",
                            !.res = IF ok THEN "resolved" ELSE "rejected",
                            \* return sqlite3.changes(db)
                            !.ret = IF ok THEN changes ELSE 0,
                            !.own = IF ok /\ stmt = "insert" THEN 1 ELSE 0]]
  /\ RawUnchanged

\* queryRaw of SELECT * FROM foo, without arguments
RawSelect ==
  /\ variant = "raw"
  /\ raw.created
  /\ raw.last.op # "query"
  /\ raw' = [raw EXCEPT !.last = QueryResult("exec", <<"id">>,
                                             [i \in 1..Len(raw.table) |-> <<"text">>])]
  /\ RawUnchanged

\* ----------------------------------------------------- error conversion
\* the implementations of queryRaw / executeRaw: wa-sqlite-adapter.ts,
\* wa-sqlite-adapter-simple.ts, part_000 and wa-sqlite-factory.ts
ErrImpls == {"main", "simple", "part", "factory"}

\* the failures of the engine: a constraint of one of three sorts, the
\* database or a table locked by another connection, anything else
FailClasses == {"unique", "fk", "notnull", "busy", "locked", "other"}

\* the primary result code of a failure (SQLITE_CONSTRAINT = 19, SQLITE_BUSY
\* = 5, SQLITE_LOCKED = 6, SQLITE_ERROR = 1)
ResultCode(class) ==
  CASE class \in {"unique", "fk", "notnull"} -> 19
    [] class = "busy" -> 5
    [] class = "locked" -> 6
    [] OTHER -> 1

\* the engine's message for a failure
ErrMsg(class) ==
  CASE class = "unique" -> "UNIQUE constraint failed: foo.id"
    [] class = "fk" -> "FOREIGN KEY constraint failed"
    [] class = "notnull" -> "NOT NULL constraint failed: foo.id"
    [] class = "busy" -> "database is locked"
    [] class = "locked" -> "database table is locked"
    [] OTHER -> "SQL logic error"

\* String.prototype.includes for the messages and the needles of the code
Includes(msg, needle) ==
  <<msg, needle>> \in
    {<<"UNIQUE constraint failed: foo.id", "UNIQUE">>,
     <<"UNIQUE constraint failed: foo.id", "UNIQUE constraint failed">>,
     <<"FOREIGN KEY constraint failed", "FOREIGN KEY">>,
     <<"FOREIGN KEY constraint failed", "FOREIGN KEY constraint failed">>,
     <<"database is locked", "database is locked">>}

\* the Error an implementation catches: the engine's own error, which carries
\* the result code, when the engine throws; the Error the implementation
\* builds from the code that step returned otherwise
CaughtError(class, how) ==
  IF how = "throw"
  THEN [hasCode |-> TRUE, code |-> ResultCode(class), msg |-> ErrMsg(class)]
  ELSE [hasCode |-> FALSE, code |-> 0, msg |-> "Failed to execute statement. Result code"]

\* convertDriverError of wa-sqlite-adapter.ts: the kind of the taxonomy
convertDriverError(error) ==
  IF error.hasCode /\ error.code \in {19, 2067}
  THEN IF Includes(error.msg, "UNIQUE") \/ Includes(error.msg, "duplicate")
       THEN "UniqueConstraintViolation"
       ELSE IF Includes(error.msg, "FOREIGN KEY") THEN "ForeignKeyConstraintViolation"
       ELSE "ConstraintViolation"
  ELSE IF error.hasCode /\ error.code \in {5, 6} THEN "DatabaseTimeout"
  ELSE IF Includes(error.msg, "no transaction is active") THEN "TransactionAlreadyClosed"
  ELSE "GenericDatabaseError"

\* handleError of wa-sqlite-factory.ts: by message only
handleError(error) ==
  IF Includes(error.msg, "UNIQUE constraint failed") THEN "UniqueConstraintViolation"
  ELSE IF Includes(error.msg, "FOREIGN KEY constraint failed") THEN "ForeignKeyConstraintViolation"
  ELSE IF Includes(error.msg, "database is locked") THEN "DatabaseTimeout"
  ELSE "GenericDatabaseError"

\* does the implementation take the statement path for this call: part_000 and
\* the factory always prepare, the others only when the query has arguments
ErrPathOk(impl, path) == impl \in {"part", "factory"} => path = "stmt"

\* how the failed call settles. main wraps what convertDriverError gives in a
\* DriverAdapterError, the factory what handleError gives; simple and part_000
\* have no catch, so the caught Error itself reaches the caller; the query
\* loop of simple ends at a returned code without looking at it
ErrSettle(impl, op, class, how) ==
  LET e == CaughtError(class, how) IN
    CASE impl = "main" -> [res |-> "rejected", wrapped |-> TRUE, kind |-> convertDriverError(e)]
      [] impl = "factory" -> [res |-> "rejected", wrapped |-> TRUE, kind |-> handleError(e)]
      [] impl = "simple" /\ op = "query" /\ how = "return" ->
           [res |-> "resolved", wrapped |-> FALSE, kind |-> "none"]
      [] OTHER -> [res |-> "rejected", wrapped |-> FALSE, kind |-> "raw"]

ExtUnchanged ==
  UNCHANGED <<variant, conn, eng, faults, inTransaction, transactionDepth,
              currentTransaction, txs, locked, queue, accepted, lifo, hist,
              spNames, last, conc, io, raw, cdb>>

\* queryRaw / executeRaw, the first call on the connection, whose statement
\* the engine fails: by throwing from exec or step ("throw") or by a result
\* code that step returns ("return")
ErrCall ==
  /\ variant = "err"
  /\ ext.err.op = "none"
  /\ \E impl \in ErrImpls, op \in {"query", "execute"}, path \in {"exec", "stmt"},
        class \in FailClasses, how \in {"throw", "return"} :
       /\ ErrPathOk(impl, path)
       /\ how = "return" => path = "stmt"
       /\ LET r == ErrSettle(impl, op, class, how) IN
            ext' = [ext EXCEPT !.err = [impl |-> impl, op |-> op, path |-> path,
                                        class |-> class, how |-> how, res |-> r.res,
                                        wrapped |-> r.wrapped, kind |-> r.kind]]
  /\ ExtUnchanged

\* ------------------------------------ the facade on the JavaScript host
\* One thread runs the call stack to completion before it takes the next
\* promise reaction from the job queue.
\* the synchronous methods of the facade that wrap an asynchronous body
SyncMethods == {"exec", "close", "run", "get", "all"}

\* what the asynchronous body resolves with: asyncGet gives the row when the
\* first step produced one and undefined otherwise
BodyResult(method, first) ==
  IF method = "get" THEN (IF first = "row" THEN "row" ELSE "undefined")
  ELSE method

\* createBetterSqlite3Compatible is called: open_v2 is in flight and the
\* caller waits at its await with the call stack empty
SyncOpen ==
  /\ variant = "sync"
  /\ ext.sync.phase = "new"
  /\ ext' = [ext EXCEPT !.sync.phase = "opening", !.sync.inflight = TRUE]
  /\ ExtUnchanged

\* the engine operation in flight settles: the reaction that waits for it
\* is put on the job queue
EngineSettle ==
  /\ variant = "sync"
  /\ ext.sync.inflight
  /\ ext' = [ext EXCEPT !.sync.inflight = FALSE,
                        !.sync.jobs = Append(@, IF ext.sync.phase = "opening"
                                                THEN "opened" ELSE "settled")]
  /\ ExtUnchanged

\* the host takes the next reaction, which it does only with an empty call
\* stack: the caller of createBetterSqlite3Compatible gets the database, or
\* the then-callback of a facade method sets done
RunJob ==
  /\ variant = "sync"
  /\ ext.sync.stack = "empty"
  /\ ext.sync.jobs # <<>>
  /\ ext' = [ext EXCEPT !.sync.jobs = Tail(@),
                        !.sync.phase = IF Head(ext.sync.jobs) = "opened" THEN "opened" ELSE @,
                        !.sync.done = IF Head(ext.sync.jobs) = "settled" THEN TRUE ELSE @]
  /\ ExtUnchanged

\* a facade method is called: the asynchronous body runs up to its first
\* await, which puts an engine operation in flight, then() registers the
\* callbacks, and the method enters `while (!done) {}`.
\* first: what the first step of the statement produces
SyncCall(method, first) ==
  /\ variant = "sync"
  /\ ext.sync.phase = "opened"
  /\ ext.sync.stack = "empty"
  /\ first = "row" => method = "get"
  /\ ext' = [ext EXCEPT !.sync.stack = "spin", !.sync.method = method,
                        !.sync.first = first, !.sync.done = FALSE,
                        !.sync.inflight = TRUE, !.sync.spins = 0,
                        !.sync.result = "none"]
  /\ ExtUnchanged

\* one test of `while (!done)`: leave the loop and return the result of the
\* body when done is set, else go round again
SpinLoop ==
  /\ variant = "sync"
  /\ ext.sync.stack = "spin"
  /\ ext' = IF ext.sync.done
            THEN [ext EXCEPT !.sync.stack = "empty",
                             !.sync.result = BodyResult(ext.sync.method, ext.sync.first)]
            ELSE [ext EXCEPT !.sync.spins = (@ + 1) % MaxSpins]
  /\ ExtUnchanged

\* --------------------------------------- get / all / iterate (the bodies)
\* The statement has the columns a and b; its row r holds r in a and NULL in b.
\* pluck(), raw() and the default give the three modes
StModes == {"pluck", "raw", "object"}

\* one row in the active mode: the first column, the array of values, or the
\* object keyed by column name
Materialize(r, mode) ==
  IF mode = "pluck" THEN <<"value", r>>
  ELSE IF mode = "raw" THEN <<"array", r, "null">>
  ELSE <<"object", [a |-> r, b |-> "null"]>>

\* asyncAll: step from where the statement stands until DONE, materialize
\* every row, reset
AllBody(st) ==
  [out |-> [i \in 1..(Len(st.rows) - st.cursor) |-> Materialize(st.rows[st.cursor + i], st.mode)],
   cursor |-> 0]

\* asyncGet: step once; a row is materialized and returned with the
\* statement left where it stands, otherwise reset and undefined
GetBody(st) ==
  IF st.cursor < Len(st.rows)
  THEN [out |-> <<Materialize(st.rows[st.cursor + 1], st.mode)>>, cursor |-> st.cursor + 1]
  ELSE [out |-> <<>>, cursor |-> 0]

\* variant of ArrayIterator that starts at the second element
ArrayIterator_SkipsFirst(rows) == [rows |-> rows, pos |-> IF rows = <<>> THEN 0 ELSE 1]

\* rows[Symbol.iterator](): an iterator that stands before the first element
ArrayIterator(rows) == [rows |-> rows, pos |-> 0]

\* Database.prepare of a statement that produces `rows`, then pluck() / raw()
StPrepare(rows, mode) ==
  /\ variant = "stmt"
  /\ ext.st.phase = "new"
  /\ ext' = [ext EXCEPT !.st.phase = "ready", !.st.rows = rows, !.st.mode = mode]
  /\ ExtUnchanged

\* the body of Statement.get
StGet ==
  /\ variant = "stmt"
  /\ ext.st.phase = "ready"
  /\ ext.st.calls < MaxStCalls
  /\ LET g == GetBody(ext.st) IN
       ext' = [ext EXCEPT !.st.cursor = g.cursor, !.st.calls = @ + 1,
                          !.st.last = [op |-> "get", out |-> g.out]]
  /\ ExtUnchanged

\* asyncRun: one step, then reset
RunBody(st) == [out |-> <<>>, cursor |-> 0]

\* the body of Statement.run
StRun ==
  /\ variant = "stmt"
  /\ ext.st.phase = "ready"
  /\ ext.st.calls < MaxStCalls
  /\ LET r == RunBody(ext.st) IN
       ext' = [ext EXCEPT !.st.cursor = r.cursor, !.st.calls = @ + 1,
                          !.st.last = [op |-> "run", out |-> r.out]]
  /\ ExtUnchanged

\* the body of Statement.all
StAll ==
  /\ variant = "stmt"
  /\ ext.st.phase = "ready"
  /\ ext.st.calls < MaxStCalls
  /\ LET a == AllBody(ext.st) IN
       ext' = [ext EXCEPT !.st.cursor = a.cursor, !.st.calls = @ + 1,
                          !.st.last = [op |-> "all", out |-> a.out]]
  /\ ExtUnchanged

\* Statement.iterate: const rows = this.all(...params), then the array's
\* iterator; it.all keeps what all returns from the same state
StIterate ==
  /\ variant = "stmt"
  /\ ext.st.phase = "ready"
  /\ ext.st.calls < MaxStCalls
  /\ LET a == AllBody(ext.st)
         i == ArrayIterator(a.out)
     IN ext' = [ext EXCEPT !.st.cursor = a.cursor, !.st.calls = @ + 1,
                           !.st.last = [op |-> "iterate", out |-> <<>>],
                           !.st.it = [rows |-> i.rows, pos |-> i.pos, yields |-> <<>>,
                                      all |-> a.out]]
  /\ ExtUnchanged

\* next() of the iterator, while it has an element left
StNext ==
  /\ variant = "stmt"
  /\ ext.st.last.op = "iterate"
  /\ ext.st.it.pos < Len(ext.st.it.rows)
  /\ ext' = [ext EXCEPT !.st.it.pos = @ + 1,
                        !.st.it.yields = Append(@, ext.st.it.rows[ext.st.it.pos + 1])]
  /\ ExtUnchanged

\* ------------------------------------------------------ adapter factories
\* does connect of the implementation keep the adapter it made: the factories
\* of wa-sqlite-adapter.ts, wa-sqlite-adapter-simple.ts and wa-sqlite-factory.ts
\* do, the one of part_000 opens a database for every call
CachesAdapter(impl) == impl # "part"

\* does dispose clear the factory's cached adapter: the release closures of
\* wa-sqlite-adapter.ts and wa-sqlite-adapter-simple.ts set adapterInstance to null
ClearsOnDispose(impl) == impl \in {"main", "simple"}

\* factory.connect()
FacConnect ==
  /\ variant = "fac"
  /\ Len(ext.fac.log) < MaxFacCalls
  /\ LET f == ext.fac
         fresh == ~CachesAdapter(f.impl) \/ f.instance = 0
         \* part_000 opens a new handle, the others hold the one handle
         \* that was opened before the factory was made
         closes == IF CachesAdapter(f.impl) THEN f.closes ELSE Append(f.closes, 0)
         adapters == IF fresh THEN Append(f.adapters, Len(closes)) ELSE f.adapters
         a == IF fresh THEN Len(adapters) ELSE f.instance
     IN ext' = [ext EXCEPT !.fac.closes = closes, !.fac.adapters = adapters,
                           !.fac.instance = IF CachesAdapter(f.impl) THEN a ELSE 0,
                           !.fac.log = Append(@, [op |-> "connect", a |-> a,
                                                  open |-> closes[adapters[a]] = 0])]
  /\ ExtUnchanged

\* dispose() of adapter a: the handle is handed to sqlite3.close
FacDispose(a) ==
  /\ variant = "fac"
  /\ Len(ext.fac.log) < MaxFacCalls
  /\ a \in 1..Len(ext.fac.adapters)
  /\ LET f == ext.fac
         c == f.adapters[a]
     IN ext' = [ext EXCEPT !.fac.closes[c] = @ + 1,
                           !.fac.instance = IF ClearsOnDispose(f.impl) THEN 0 ELSE @,
                           !.fac.log = Append(@, [op |-> "dispose", a |-> a,
                                                  open |-> f.closes[c] = 0])]
  /\ ExtUnchanged

\* queryRaw / executeRaw on adapter a: the adapter hands its handle to
\* sqlite3.exec or prepare_v2 without looking whether it was closed
FacQuery(a) ==
  /\ variant = "fac"
  /\ Len(ext.fac.log) < MaxFacCalls
  /\ a \in 1..Len(ext.fac.adapters)
  /\ ext' = [ext EXCEPT !.fac.log = Append(@, [op |-> "query", a |-> a,
                                               open |-> ext.fac.closes[ext.fac.adapters[a]] = 0])]
  /\ ExtUnchanged

\* ------------------------------ statement-iterating adapter (WASqliteQueryable)
\* the statements a query text is made of: a SELECT of one row of one column,
\* or a one-row INSERT, with n parameters
MiStatements == [kind : {"select", "insert"}, n : 0..MaxMiParams]

\* number of parameters of the first k statements
RECURSIVE ParamsBefore(_, _)
ParamsBefore(stmts, k) ==
  IF k = 0 THEN 0 ELSE ParamsBefore(stmts, k - 1) + stmts[k].n

\* Array.prototype.slice(start, end) for 0 <= start, 0 <= end
Slice(arr, start, end) ==
  SubSeq(arr, start + 1, IF end < Len(arr) THEN end ELSE Len(arr))

\* the result performIO returns when no statement left the counter non-zero
EmptyResult == [columnNames |-> <<>>, rows |-> <<>>, changes |-> 0]

\* the loop of performIO over sqlite3.statements(database, query.sql), from
\* statement k on: bind_collection of params.slice(currentIndex, paramCount),
\* currentIndex += paramCount, step until no row, read sqlite3.changes and
\* return when it is not 0. ch: the engine's change counter, binds: what the
\* statements before k were bound with
RECURSIVE IterateStatements(_, _, _, _, _, _)
IterateStatements(stmts, k, params, currentIndex, ch, binds) ==
  IF k > Len(stmts) THEN [binds |-> binds, result |-> EmptyResult, changes |-> ch]
  ELSE LET paramCount == stmts[k].n
           bound == Slice(params, currentIndex, paramCount)
           isSelect == stmts[k].kind = "select"
           \* an INSERT sets the counter to its one row, a SELECT leaves it
           changes == IF isSelect THEN ch ELSE 1
       IN IF changes # 0
          THEN [binds |-> Append(binds, bound),
                result |-> [columnNames |-> IF isSelect THEN <<"c">> ELSE <<>>,
                            rows |-> IF isSelect THEN <<"row">> ELSE <<>>,
                            changes |-> changes],
                changes |-> changes]
          ELSE IterateStatements(stmts, k + 1, params, currentIndex + paramCount,
                                 changes, Append(binds, bound))

\* queryRaw / executeRaw of the statement-iterating adapter: performIO on a
\* text of 1..MaxMiStmts statements with one argument per parameter
MiPerformIO ==
  /\ variant = "multi"
  /\ ~ext.mi.made
  /\ \E len \in 1..MaxMiStmts : \E stmts \in [1..len -> MiStatements] :
       LET args == [i \in 1..ParamsBefore(stmts, len) |-> i]
           x == IterateStatements(stmts, 1, args, 0, ext.mi.changes, <<>>)
       IN ext' = [ext EXCEPT !.mi = [changes |-> x.changes, before |-> ext.mi.changes,
                                     made |-> TRUE, stmts |-> stmts, args |-> args,
                                     binds |-> x.binds, result |-> x.result]]
  /\ ExtUnchanged

\* --------------------------------------------------- Database.transaction
\* the callables Database.transaction(fn) hands out: the function itself and
\* its default, deferred, immediate and exclusive properties
TxnKinds == {"plain", "default", "deferred", "immediate", "exclusive"}

\* the text the callable hands to exec first
BeginText(kind) ==
  IF kind = "immediate" THEN "BEGIN IMMEDIATE"
  ELSE IF kind = "exclusive" THEN "BEGIN EXCLUSIVE"
  ELSE "BEGIN"

\* what fn does: insert a row and return, insert a row and throw, or run a
\* statement that the engine fails and answers by rolling the transaction back
FnBehaviours == {"returns", "throws", "aborts"}

\* the engine failures a call may meet: none, or one at the named command
TxnFaults == {"none", "begin", "commit", "rollback"}

TxnResult(inTx, e, log, res, err, fnErr) ==
  [inTransaction |-> inTx, eng |-> e, log |-> log, res |-> res, err |-> err, fnErr |-> fnErr]

\* the catch block: self.exec('ROLLBACK'), self.inTransaction = false, throw
\* error; an exec that throws leaves the block at once
TxnCatch(e, log, thrown, fnErr, fault) ==
  LET rb == Exec(e, CmdRollback, fault = "rollback") IN
    IF rb.err = "ok"
    THEN TxnResult(FALSE, rb.eng, Append(log, "ROLLBACK"), "threw", thrown, fnErr)
    ELSE TxnResult(TRUE, rb.eng, Append(log, "ROLLBACK"), "threw", rb.err, fnErr)

\* runTransaction and its immediate / exclusive copies, with exec as a call
\* that has completed when it returns. t: the database before the call,
\* r: the row fn inserts
RunTransaction(t, kind, fn, r, fault) ==
  LET b == Exec(t.eng, CmdBegin, fault = "begin") IN
    IF b.err # "ok"
    THEN TxnResult(t.inTransaction, b.eng, <<BeginText(kind)>>, "threw", b.err, "none")
    ELSE LET s == Insert(b.eng, r, IF fn = "aborts" THEN "abort" ELSE "run")
             fnErr == IF s.err # "ok" THEN s.err ELSE IF fn = "throws" THEN "fn" ELSE "ok"
             log == <<BeginText(kind), "fn">>
         IN IF fnErr # "ok" THEN TxnCatch(s.eng, log, fnErr, fnErr, fault)
            ELSE LET c == Exec(s.eng, CmdCommit, fault = "commit") IN
              IF c.err = "ok"
              THEN TxnResult(FALSE, c.eng, Append(log, "COMMIT"), "returned", "none", fnErr)
              ELSE TxnCatch(c.eng, Append(log, "COMMIT"), c.err, fnErr, fault)

\* a call of db.transaction(fn)(), or of one of its properties
TxnCall ==
  /\ variant = "txn"
  /\ ext.txn.calls < MaxTxnCalls
  /\ \E kind \in TxnKinds, fn \in FnBehaviours, r \in Rows, fault \in TxnFaults :
       LET x == RunTransaction(ext.txn, kind, fn, r, fault) IN
         ext' = [ext EXCEPT !.txn = [inTransaction |-> x.inTransaction, eng |-> x.eng,
                                     calls |-> ext.txn.calls + 1,
                                     last |-> [kind |-> kind, fn |-> fn, log |-> x.log,
                                               res |-> x.res, err |-> x.err,
                                               fnErr |-> x.fnErr]]]
  /\ ExtUnchanged

\* ------------------------------------------------ statement classification
\* An SQL text is a sequence of characters.
UpperLetters == <<"A", "B", "C", "D", "E", "F", "G", "H", "I", "J", "K", "L", "M", "N", "O", "P", "Q", "R", "S", "T", "U", "V", "W", "X", "Y", "Z">>
LowerLetters == <<"a", "b", "c", "d", "e", "f", "g", "h", "i", "j", "k", "l", "m", "n", "o", "p", "q", "r", "s", "t", "u", "v", "w", "x", "y", "z">>

\* the keywords that SQL statements of the texts begin with
Keywords ==
  {<<"S", "E", "L", "E", "C", "T">>,
   <<"W", "I", "T", "H">>,
   <<"V", "A", "L", "U", "E", "S">>,
   <<"P", "R", "A", "G", "M", "A">>,
   <<"I", "N", "S", "E", "R", "T">>,
   <<"U", "P", "D", "A", "T", "E">>,
   <<"D", "E", "L", "E", "T", "E">>,
   <<"C", "R", "E", "A", "T", "E">>,
   <<"B", "E", "G", "I", "N">>,
   <<"E", "X", "P", "L", "A", "I", "N">>}

\* what precedes the keyword in a text, and what follows it
LeadIns == {<<>>, <<" ">>, <<"\n", " ", "\t">>}
Rests == {<<>>, <<" ", "1">>, <<"(", "1", ")">>, <<"*">>, <<"\n">>}

IsLetter(c) == \E i \in 1..26 : c = UpperLetters[i] \/ c = LowerLetters[i]
IsSpace(c) == c \in {" ", "\n", "\t"}

\* String.prototype.toUpperCase, character by character
ToUpperCase(t) ==
  [i \in 1..Len(t) |->
     IF \E k \in 1..26 : t[i] = LowerLetters[k]
     THEN UpperLetters[CHOOSE k \in 1..26 : t[i] = LowerLetters[k]]
     ELSE t[i]]

ToLowerCase(t) ==
  [i \in 1..Len(t) |->
     IF \E k \in 1..26 : t[i] = UpperLetters[k]
     THEN LowerLetters[CHOOSE k \in 1..26 : t[i] = UpperLetters[k]]
     ELSE t[i]]

\* the spellings of a keyword in the texts: upper case, lower case, capitalised
Spellings(word) ==
  {word, ToLowerCase(word), <<word[1]>> \o ToLowerCase(Tail(word))}

\* variant of Trim that leaves the text as it is
Trim_Nothing(t) == t

\* String.prototype.trim
Trim(t) ==
  LET inked == {i \in 1..Len(t) : ~IsSpace(t[i])} IN
    IF inked = {} THEN <<>>
    ELSE SubSeq(t, CHOOSE i \in inked : \A j \in inked : i <= j,
                   CHOOSE i \in inked : \A j \in inked : j <= i)

\* String.prototype.startsWith
StartsWith(t, prefix) ==
  Len(prefix) <= Len(t) /\ SubSeq(t, 1, Len(prefix)) = prefix

\* the reader flag the constructor of WaSQLiteStatement computes
ReaderFlag(sql) ==
  LET trimmedSql == ToUpperCase(Trim(sql)) IN
    \/ StartsWith(trimmedSql, <<"S", "E", "L", "E", "C", "T">>)
    \/ StartsWith(trimmedSql, <<"W", "I", "T", "H">>)
    \/ StartsWith(trimmedSql, <<"V", "A", "L", "U", "E", "S">>)
    \/ StartsWith(trimmedSql, <<"P", "R", "A", "G", "M", "A">>)

\* Database.prepare(sql): the constructor of the statement sets source,
\* reader and readonly
SqlPrepare ==
  /\ variant = "sql"
  /\ ~ext.sql.made
  /\ \E lead \in LeadIns, word \in Keywords, rest \in Rests :
       \E spelt \in Spellings(word) :
         LET sql == lead \o spelt \o rest IN
           ext' = [ext EXCEPT !.sql = [made |-> TRUE, source |-> sql,
                                       reader |-> ReaderFlag(sql),
                                       readonly |-> ReaderFlag(sql)]]
  /\ ExtUnchanged

\* ---------------------------------------------------------------- dispose
\* call record of a dispose call; eng keeps the engine state the connection
\* had when its handle was released
Disposed(cmds, errs) ==
  /\ conn' = "closed"
  /\ Track(accepted /\ AllOk(errs), lifo,
           IF cmds = <<>> THEN hist
           ELSE \* the ROLLBACK ends every frame that is still open
                [hist EXCEPT !.frames = <<>>,
                             !.ins = NoIns,
                             !.objs = [h \in DOMAIN hist.objs |->
                                        IF hist.objs[h].fate = "open"
                                        THEN [hist.objs[h] EXCEPT !.fate = "rolledback"]
                                        ELSE hist.objs[h]]])
  /\ last' = Call("dispose", 0, 0, transactionDepth, Clean, TRUE, "NONE", cmds, errs,
                  "resolved", "none", FALSE, {})

\* PrismaWaSQLiteAdapter.dispose: the rollback, then release() = sqlite3.close(db)
DepthDispose(f) ==
  /\ variant = "depth"
  /\ conn = "open"
  /\ f => (faults > 0 /\ inTransaction)
  /\ LET r == dispose(inTransaction, transactionDepth, eng, f) IN
       /\ inTransaction' = r.inTransaction
       /\ transactionDepth' = r.transactionDepth
       /\ eng' = r.eng
       /\ faults' = faults - NumFaults(r.errs)
       /\ Disposed(r.cmds, r.errs)
  /\ UNCHANGED <<variant, aux, currentTransaction, txs, locked, queue, spNames>>

\* WaSQLiteAdapter.dispose of the factory: this.db.close()
GateDispose ==
  /\ variant = "gate"
  /\ conn = "open"
  /\ Disposed(<<>>, <<>>)
  /\ UNCHANGED <<variant, aux, eng, faults, inTransaction, transactionDepth,
                 currentTransaction, txs, locked, queue, spNames>>

\* WaSQLiteAdapter.dispose of part_000: sqlite3.close(this.db)
FlagDispose ==
  /\ variant = "flag"
  /\ conn = "open"
  /\ Disposed(<<>>, <<>>)
  /\ UNCHANGED <<variant, aux, eng, faults, inTransaction, transactionDepth,
                 currentTransaction, txs, locked, queue, spNames>>

\* transaction objects handed out by startTransaction and not yet closed
OpenTxs == {k \in Created : ~txs[k].closed}

\* ------------------------------------------------------- the specification
Next ==
  \/ \E r \in Rows, mode \in {"run", "abort"} : ExecuteRaw(r, mode)
  \/ QueryRaw
  \/ \E iso \in IsoLevels, f \in BOOLEAN : DepthStart(iso, f)
  \/ \E h \in Handles, fs \in FaultsFor(2) : DepthCommit(h, fs)
  \/ \E h \in Handles, fs \in FaultsFor(2) : DepthRollback(h, fs)
  \/ \E iso \in IsoLevels : GateStart(iso)
  \/ \E k \in Handles, f \in BOOLEAN : GateBegin(k, f)
  \/ \E k \in Handles, f \in BOOLEAN : GateCommit(k, f)
  \/ \E k \in Handles, f \in BOOLEAN : GateRollback(k, f)
  \/ \E iso \in IsoLevels, f \in BOOLEAN : FlagStart(iso, f)
  \/ \E k \in Handles, f \in BOOLEAN : FlagCommit(k, f)
  \/ \E k \in Handles, hasAuto \in BOOLEAN, f \in BOOLEAN : FlagRollback(k, hasAuto, f)
  \/ \E f \in BOOLEAN : DepthDispose(f)
  \/ \E op \in {"start", "commit", "rollback"} : ConcCall(op)
  \/ \E i \in 1..MaxCalls : ConcResume(i)
  \/ \E kind \in {"query", "execute"}, left \in 0..MaxIoRows : IoCall(kind, left)
  \/ \E i \in 1..MaxIoCalls, out \in PrepareOutcomes, b, f \in BOOLEAN : IoPrepared(i, out, b, f)
  \/ \E i \in 1..MaxIoCalls, f \in BOOLEAN : IoStepped(i, f)
  \/ \E i \in 1..MaxIoCalls : IoFinalized(i)
  \/ CdbPrepare
  \/ \E t \in 1..MaxStmts, out \in PrepareOutcomes, f \in BOOLEAN : CdbRun(t, out, f)
  \/ \E t \in 1..MaxStmts : CdbFinalize(t)
  \/ \E b \in BOOLEAN : CdbExec(b)
  \/ CdbClose
  \/ TypesQuery
  \/ \E stmt \in {"create", "ddl", "insert"}, v \in Rows : RawExecute(stmt, v)
  \/ RawSelect
  \/ ErrCall
  \/ SyncOpen
  \/ EngineSettle
  \/ RunJob
  \/ \E m \in SyncMethods, first \in {"row", "done"} : SyncCall(m, first)
  \/ SpinLoop
  \/ /\ variant = "stmt"
     /\ \E n \in 0..MaxStRows, mode \in StModes :
          \E rows \in [1..n -> Rows] : StPrepare(rows, mode)
  \/ StGet
  \/ StRun
  \/ StAll
  \/ StIterate
  \/ StNext
  \/ FacConnect
  \/ SqlPrepare
  \/ TxnCall
  \/ MiPerformIO
  \/ \E a \in 1..MaxFacCalls : FacDispose(a)
  \/ \E a \in 1..MaxFacCalls : FacQuery(a)
  \/ GateDispose
  \/ FlagDispose

Spec == Init /\ [][Next]_vars

\* the host does not stop while it has something to run
FairSpec == Spec /\ WF_vars(Next)

\* the commit or rollback of transaction object k while it is open
CloseOpenTx(k) ==
  /\ k \in OpenTxs
  /\ \E f \in BOOLEAN : GateCommit(k, f) \/ GateRollback(k, f)

\* the mutex-gated adapter with a caller that commits or rolls back every
\* transaction it was given, and a host that resumes a startTransaction
\* whose acquire() promise has resolved
GateFairSpec ==
  /\ Spec
  /\ \A k \in 1..MaxGateCalls : WF_vars(\E f \in BOOLEAN : GateBegin(k, f))
  /\ \A k \in 1..MaxGateCalls : WF_vars(CloseOpenTx(k))

TypeOK ==
  /\ variant \in Variants
  /\ faults \in 0..MaxFaults
  /\ inTransaction \in BOOLEAN
  /\ transactionDepth \in Int
  /\ locked \in BOOLEAN
  /\ accepted \in BOOLEAN
  /\ lifo \in BOOLEAN
  /\ eng.db \subseteq Rows
  /\ Clean => Len(hist.objs) = Len(txs)
  /\ conn \in {"open", "closed"}

\* ================================================================ properties
\* the nesting depth of the engine: 0 in autocommit, else the transaction
\* and its open savepoints (a transaction that a SAVEPOINT began is that
\* savepoint)
EngineDepth(e) ==
  IF ~e.tx THEN 0 ELSE IF e.txsp THEN Len(e.sp) ELSE 1 + Len(e.sp)

\* the kinds of error a DriverAdapterError of these adapters carries
TaxonomyKinds ==
  {"GenericDatabaseError", "UniqueConstraintViolation", "ForeignKeyConstraintViolation",
   "ConstraintViolation", "DatabaseTimeout", "TransactionAlreadyClosed",
   "InvalidIsolationLevel"}

Closing == last.op \in {"commit", "rollback"}

\* C1: startTransaction of the depth-tracking adapter issues exactly one engine
\* command: BEGIN when the depth was 0, after which (the engine accepting it)
\* the depth is 1, and SAVEPOINT of level d+1 when the depth was d >= 1, after
\* which the depth is d+1.
C1_StartIssuesBeginOrSavepoint ==
  (variant = "depth" /\ last.op = "start" /\ last.err # "InvalidIsolationLevel") =>
    /\ last.d0 = 0 =>
         /\ last.cmds = <<CmdBegin>>
         /\ last.res = "resolved" => (transactionDepth = 1 /\ inTransaction)
    /\ last.d0 >= 1 =>
         /\ last.cmds = <<CmdSavepoint(last.d0 + 1)>>
         /\ last.res = "resolved" => (transactionDepth = last.d0 + 1 /\ inTransaction)

C1_Witness ==
  /\ variant = "depth" /\ last.op = "start" /\ last.res = "resolved"
  /\ last.d0 = 1 /\ transactionDepth = 2
  /\ Len(eng.sp) = 1 /\ eng.sp[1].name = 2

\* C2: while the engine accepts every command and transaction objects are
\* closed in LIFO order, the depth equals the number of objects still open
\* (so it is 0, and inTransaction false, once all are closed); the depth is
\* never negative.
C2_DepthBookkeeping ==
  variant = "depth" =>
    /\ transactionDepth >= 0
    /\ Clean => /\ transactionDepth = Len(hist.frames)
                /\ inTransaction = (Len(hist.frames) > 0)

C2_Witness ==
  /\ variant = "depth" /\ Clean /\ Len(txs) = 2 /\ hist.frames = <<>>
  /\ hist.objs[1].level = 1 /\ hist.objs[2].level = 2
  /\ hist.objs[2].fate = "committed" /\ hist.objs[1].fate = "rolledback"
  /\ transactionDepth = 0 /\ ~inTransaction

\* C3: in a clean run, when the rollback of the outermost transaction has
\* resolved, the table is what it was before the outermost startTransaction,
\* whatever was written and committed in nested transactions meanwhile.
C3_OuterRollbackRestores ==
  (variant = "depth" /\ Clean /\ last.op = "rollback" /\ last.d0 = 1
     /\ last.res = "resolved") =>
    (eng.db = hist.preTx /\ ~eng.tx)

C3_Witness ==
  /\ variant = "depth" /\ Clean /\ Len(txs) = 2
  /\ last.op = "rollback" /\ last.h = 1 /\ last.d0 = 1 /\ last.res = "resolved"
  /\ hist.objs[1].wrote /\ hist.objs[2].wrote /\ hist.objs[2].level = 2
  /\ hist.objs[2].fate = "committed" /\ hist.objs[1].fate = "rolledback"
  /\ eng.db = hist.preTx /\ eng.db # Rows

C5_OuterCloseErrors ==
  (variant = "depth" /\ Closing /\ last.d0 = 1) =>
    /\ last.cmds = <<IF last.op = "commit" THEN CmdCommit ELSE CmdRollback>>
    /\ last.errs[1] \in {"ok", "no_tx"} =>
         (last.res = "resolved" /\ transactionDepth = 0 /\ ~inTransaction)
    /\ last.errs[1] \notin {"ok", "no_tx"} =>
         (last.res = "rejected" /\ last.err = last.errs[1])

C5_Witness ==
  /\ variant = "depth" /\ last.op = "commit" /\ last.d0 = 1
  /\ last.errs = <<"no_tx">> /\ last.res = "resolved"
  /\ transactionDepth = 0 /\ ~inTransaction

\* C6: commit at depth d > 1 issues RELEASE SAVEPOINT of the name that the
\* startTransaction which raised the depth to d used, resolves and leaves the
\* depth at d-1, also when the engine rejects the RELEASE, which is only
\* logged as a warning.
C6_NestedCommitReleases ==
  (variant = "depth" /\ last.op = "commit" /\ last.d0 > 1) =>
    /\ last.cmds = <<CmdRelease(spNames[last.d0])>>
    /\ last.res = "resolved" /\ last.err = "none"
    /\ transactionDepth = last.d0 - 1
    /\ last.warned = (last.errs[1] # "ok")

C6_Witness ==
  /\ variant = "depth" /\ last.op = "commit" /\ last.d0 = 2
  /\ last.cmds = <<CmdRelease(2)>> /\ last.errs = <<"other">>
  /\ last.res = "resolved" /\ last.warned /\ transactionDepth = 1

\* C7: rollback at depth d > 1 issues ROLLBACK TO SAVEPOINT of level d and,
\* the engine accepting it, RELEASE SAVEPOINT of level d next and nothing
\* else; afterwards the depth is d-1 >= 1 and the adapter is still in its
\* transaction, as is the engine when it accepted every command so far.
C7_NestedRollbackOrder ==
  (variant = "depth" /\ last.op = "rollback" /\ last.d0 > 1) =>
    /\ Len(last.cmds) >= 1 /\ last.cmds[1] = CmdRollbackTo(last.d0)
    /\ last.errs[1] = "ok" => last.cmds = <<CmdRollbackTo(last.d0), CmdRelease(last.d0)>>
    /\ last.errs[1] # "ok" => Len(last.cmds) = 1
    /\ transactionDepth = last.d0 - 1 /\ transactionDepth >= 1 /\ inTransaction
    /\ accepted => eng.tx

C7_Witness ==
  /\ variant = "depth" /\ Clean /\ last.op = "rollback" /\ last.d0 = 2 /\ last.inner
  /\ last.cmds = <<CmdRollbackTo(2), CmdRelease(2)>> /\ last.errs = <<"ok", "ok">>
  /\ transactionDepth = 1 /\ inTransaction /\ eng.tx /\ eng.sp = <<>>
  /\ hist.objs[last.h].wrote /\ eng.db = hist.preTx

\* C8: a startTransaction whose isolation level is neither omitted nor
\* SERIALIZABLE is rejected with InvalidIsolationLevel without an engine
\* command, and the step leaves the engine, the depth fields, the gate and
\* the transaction objects as they were.
C8_InvalidIsolationLevel ==
  /\ [](last.op \in {"start", "acquire"} /\ last.iso \notin {"NONE", "SERIALIZABLE"}
          => /\ last.res = "rejected" /\ last.err = "InvalidIsolationLevel"
             /\ last.cmds = <<>> /\ last.h = 0)
  /\ [][(last'.err = "InvalidIsolationLevel" /\ last' # last)
          => UNCHANGED <<eng, inTransaction, transactionDepth, currentTransaction,
                         locked, queue, txs, hist>>]_vars

C8_Witness ==
  /\ last.op = "start" /\ last.iso = "READ COMMITTED"
  /\ last.err = "InvalidIsolationLevel" /\ last.res = "rejected"
  /\ variant = "gate" /\ locked /\ Len(txs) = 1 /\ txs[1].state = "live"

\* C9: the commit or rollback of a transaction object acts on the frame the
\* object was opened for: COMMIT / ROLLBACK for an object opened at level 1,
\* the savepoint of its own level otherwise.
C9_HandleBoundToItsFrame ==
  (variant = "depth" /\ last.clean0 /\ Closing) =>
    \A i \in 1..Len(last.cmds) :
      IF last.lvl = 1
      THEN last.cmds[i].op \in {"COMMIT", "ROLLBACK"}
      ELSE last.cmds[i].name = last.lvl

\* C10: a commit or rollback on a transaction object that is not the
\* innermost open one is rejected, or at least leaves the depth alone.
C10_OutOfOrderCloseDetected ==
  (variant = "depth" /\ last.clean0 /\ Closing /\ ~last.inner) =>
    (last.res = "rejected" \/ transactionDepth = last.d0)

\* C11: a dispose call issues ROLLBACK exactly when a transaction is open
\* (depth > 0), resolves whatever the engine answers, leaves the depth at 0,
\* and no connection is released while the engine has an open transaction.
C11_DisposeRollsBackBeforeRelease ==
  /\ (variant = "depth" /\ last.op = "dispose") =>
       /\ last.cmds = (IF last.d0 > 0 THEN <<CmdRollback>> ELSE <<>>)
       /\ last.res = "resolved"
       /\ transactionDepth = 0
  /\ (conn = "closed" /\ accepted) => ~eng.tx

\* C12: in the mutex-gated adapter at most one transaction object is open at
\* any time, and the BEGIN of a startTransaction call is not issued while a
\* transaction object is open.
C12_SerializationGate ==
  /\ [](variant = "gate" => Cardinality(OpenTxs) <= 1)
  /\ [][(variant = "gate" /\ \E k \in Handles : /\ txs[k].state = "granted"
                                               /\ txs'[k].state # "granted")
          => OpenTxs = {}]_vars

\* C13: the engine sees the commands of one call of the depth-tracking adapter
\* completely before those of the next, and once every call has settled the
\* depth is one that some execution of the same calls one after the other
\* ends with.
C13_ConcurrentCallsSerialize ==
  variant = "conc" =>
    /\ \A a, b, c \in 1..Len(conc.log) :
         (a < b /\ b < c /\ conc.log[a] = conc.log[c]) => conc.log[b] = conc.log[a]
    /\ (\A i \in 1..Len(conc.calls) : conc.calls[i].st # "pending")
         => transactionDepth \in SerialDepths

\* C14: a step of one queryRaw / executeRaw call does not reach the engine
\* while the statement of another call is being stepped (has given a row and
\* is neither done nor finalized).
C14_StepsDoNotInterleave ==
  [][io'.stepper # 0
        => \A a \in 1..Len(io.calls) : a # io'.stepper => ~IoActive(a)]_vars

\* C15: when a queryRaw / executeRaw call has settled, every string buffer
\* and statement handle it acquired has been released exactly once; none is
\* ever released more often than acquired.
C15_ResourcesReleasedOnce ==
  \A i \in 1..Len(io.calls) :
    LET k == io.calls[i] IN
      /\ k.strRel <= k.strAcq /\ k.stmtRel <= k.stmtAcq
      /\ k.res # "pending" => (k.strRel = k.strAcq /\ k.stmtRel = k.stmtAcq)

\* C18: an executeRaw call whose single step gave DONE or ROW succeeds, reads
\* the change counter before any other statement has been stepped on the
\* connection, and has finalized its statement when it resolves.
C18_ExecuteStepAndCounter ==
  variant = "io" =>
    \A i \in 1..Len(io.calls) :
      LET k == io.calls[i] IN
        k.kind = "execute" =>
          /\ (k.pc = "finalize" /\ k.code \in {"DONE", "ROW"}) => k.pend = "resolved"
          /\ ~k.staleRead
          /\ k.res = "resolved" => k.stmtRel = 1

\* C16: after Database.close no statement of the connection holds a native
\* statement or string buffer, the engine has no open transaction, the native
\* handle is released and the database is marked closed; a close of a closed
\* database makes no engine call.
C16_CloseReleasesEverything ==
  (variant = "compat" /\ cdb.last.op = "close") =>
    /\ \A t \in 1..Len(cdb.stmts) : ~cdb.stmts[t].stmt /\ ~cdb.stmts[t].str
    /\ ~cdb.tx /\ cdb.released /\ ~cdb.open
    /\ cdb.last.again => cdb.last.engine = 0

\* C17: finalize() on a statement on which finalize() already ran, with
\* nothing prepared since, calls neither sqlite3.finalize nor
\* sqlite3.str_finish, and a finalize leaves every other statement of the
\* connection as it was.
C17_FinalizeIdempotent ==
  /\ []((cdb.last.op = "finalize" /\ cdb.last.again)
          => (cdb.last.nFin = 0 /\ cdb.last.nStr = 0))
  /\ [][cdb'.last.op = "finalize"
          => \A t \in 1..Len(cdb.stmts) : t # cdb'.last.s => cdb'.stmts[t] = cdb.stmts[t]]_vars

C17_Witness ==
  /\ variant = "compat" /\ cdb.last.op = "finalize" /\ cdb.last.again
  /\ cdb.last.s = 1 /\ Len(cdb.stmts) = 2 /\ cdb.stmts[2].stmt /\ cdb.stmts[2].str
  /\ ~cdb.stmts[1].stmt /\ ~cdb.stmts[1].str

\* C19: on a fresh database executeRaw of CREATE TABLE returns 0, the INSERT
\* after it returns 1 and the SELECT * after that returns the column name and
\* one row; every executeRaw returns the number of rows its own statement
\* changed.
C19_ExecuteRawReturnsOwnChanges ==
  variant = "raw" =>
    /\ (raw.script = <<"create">> /\ raw.last.op = "execute") => raw.last.ret = 0
    /\ (raw.script = <<"create", "insert">> /\ raw.last.op = "execute") => raw.last.ret = 1
    /\ (raw.script = <<"create", "insert">> /\ raw.last.op = "query") =>
         (raw.last.columnNames = <<"id">> /\ raw.last.rows = <<<<"text">>>>)
    /\ (raw.last.op = "execute" /\ raw.last.res = "resolved") => raw.last.ret = raw.last.own

\* C20: a queryRaw result has the statement's column names and one type tag
\* per column, in column order; tag i is the tag of value i of the first row,
\* Text for every column when there is no row, and value i of every row is
\* converted under tag i.
C20_ColumnTypeTags ==
  (variant = "types" /\ raw.last.op = "query") =>
    LET q == raw.last
        tag(i) == IF q.given = <<>> THEN "Text" ELSE InferTag(q.given[1][i])
    IN /\ q.columnNames = q.cols
       /\ Len(q.columnTypes) = Len(q.cols)
       /\ \A i \in 1..Len(q.cols) : i <= Len(q.columnTypes) => q.columnTypes[i] = tag(i)
       /\ \A r \in 1..Len(q.given) : \A i \in 1..Len(q.cols) :
            q.rows[r][i] = MapValue(q.given[r][i], tag(i))

\* C21: a failed queryRaw / executeRaw whose engine error names a UNIQUE
\* violation rejects with UniqueConstraintViolation, one that names FOREIGN KEY
\* with ForeignKeyConstraintViolation, on the path without and on the path
\* with arguments.
C21_ConstraintKinds ==
  (variant = "err" /\ ext.err.op # "none" /\ ext.err.how = "throw") =>
    /\ ext.err.class = "unique" =>
         (ext.err.res = "rejected" /\ ext.err.wrapped /\ ext.err.kind = "UniqueConstraintViolation")
    /\ ext.err.class = "fk" =>
         (ext.err.res = "rejected" /\ ext.err.wrapped
            /\ ext.err.kind = "ForeignKeyConstraintViolation")

\* C22: a queryRaw / executeRaw that the engine fails with BUSY or LOCKED
\* rejects with DatabaseTimeout, whether the engine throws the error or step
\* returns the code.
C22_BusyIsTimeout ==
  (variant = "err" /\ ext.err.op # "none" /\ ext.err.class \in {"busy", "locked"}) =>
    (ext.err.res = "rejected" /\ ext.err.wrapped /\ ext.err.kind = "DatabaseTimeout")

\* C23: an operation of the depth-tracking adapter that rejects does so with
\* an error of the taxonomy, never with the engine's own error, and one that
\* resolves has had no engine command fail except a COMMIT or ROLLBACK that
\* found no transaction active; a failed queryRaw / executeRaw rejects with a
\* DriverAdapterError.
C23_OneTaxonomyError ==
  /\ (variant = "depth" /\ last.op \in {"start", "commit", "rollback", "dispose"}) =>
       /\ last.res = "rejected" => last.err \in TaxonomyKinds
       /\ last.res = "resolved" =>
            \A i \in 1..Len(last.errs) :
              \/ last.errs[i] = "ok"
              \/ (last.op \in {"commit", "rollback"} /\ last.d0 = 1 /\ last.errs[i] = "no_tx")
  /\ (variant = "err" /\ ext.err.op # "none" /\ ext.err.impl = "main") =>
       (ext.err.res = "rejected" /\ ext.err.wrapped /\ ext.err.kind \in TaxonomyKinds)

\* C29: in every state of the depth-tracking adapter, also between the steps
\* of calls that are pending at the same time, inTransaction is true exactly
\* when transactionDepth is at least 1, and transactionDepth is not negative.
C29_FlagMatchesDepth ==
  variant \in {"depth", "conc"} =>
    /\ inTransaction <=> transactionDepth >= 1
    /\ transactionDepth >= 0

\* C30: after every completed startTransaction, commit and rollback of the
\* depth-tracking adapter transactionDepth is the nesting depth of the engine,
\* also when the engine rejected the command of the call.
C30_DepthIsEngineDepth ==
  (variant = "depth" /\ last.op \in {"start", "commit", "rollback"}
     /\ (last.res = "rejected" => last.err \notin TaxonomyKinds)) =>
    transactionDepth = EngineDepth(eng)

\* C24: every call of a synchronous facade method returns: once the method
\* waits for its asynchronous body, the call stack is eventually empty again.
C24_FacadeCallReturns ==
  [](ext.sync.stack = "spin" => <>(ext.sync.stack = "empty"))

\* C25: a call of get whose first step produces no row returns undefined, and
\* one whose first step produces a row returns that row.
C25_GetReturnsRowOrUndefined ==
  /\ [](( ext.sync.stack = "spin" /\ ext.sync.method = "get" /\ ext.sync.first = "done")
          => <>(ext.sync.stack = "empty" /\ ext.sync.result = "undefined"))
  /\ [](( ext.sync.stack = "spin" /\ ext.sync.method = "get" /\ ext.sync.first = "row")
          => <>(ext.sync.stack = "empty" /\ ext.sync.result = "row"))

C27_OneConnectionPerFactory ==
  variant = "fac" =>
    LET log == ext.fac.log IN
      /\ \A i \in 1..(Len(log) - 1) :
           (log[i].op = "connect" /\ log[i + 1].op = "connect") => log[i].a = log[i + 1].a
      /\ \A i \in 1..Len(log) : log[i].op = "connect" => log[i].open
      /\ \A c \in 1..Len(ext.fac.closes) : ext.fac.closes[c] <= 1

\* the first word of a text: the letters that follow its leading white space,
\* in upper case
LeadingToken(t) ==
  LET rest == {i \in 1..Len(t) : ~IsSpace(t[i])}
      from == IF rest = {} THEN Len(t) + 1 ELSE CHOOSE i \in rest : \A j \in rest : i <= j
      stop == {i \in from..Len(t) : ~IsLetter(t[i])}
      to == IF stop = {} THEN Len(t) ELSE (CHOOSE i \in stop : \A j \in stop : i <= j) - 1
  IN ToUpperCase(SubSeq(t, from, to))

ReaderWords == {<<"S", "E", "L", "E", "C", "T">>, <<"W", "I", "T", "H">>, <<"V", "A", "L", "U", "E", "S">>, <<"P", "R", "A", "G", "M", "A">>}

C31_FailedStartLeavesState ==
  [][(variant = "depth" /\ last' # last /\ last'.op = "start"
        /\ last'.res = "rejected" /\ last'.cmds # <<>>)
       => UNCHANGED <<inTransaction, transactionDepth, currentTransaction, txs>>]_vars

\* the gate is held by nobody: it is locked, and no startTransaction call is
\* between its grant and its BEGIN or has an open transaction object
GateOrphaned ==
  /\ locked
  /\ \A k \in Handles : txs[k].state # "granted" /\ k \notin OpenTxs

\* C32: the gate of the mutex-gated adapter is always released again: it is
\* never left locked with no holder (in particular not after a BEGIN that
\* failed), and with a caller that closes every transaction it was given,
\* every waiting startTransaction is eventually granted the gate, as long as
\* the connection is open.
C32_GateReleasedAgain ==
  /\ [](variant = "gate" => ~GateOrphaned)
  /\ \A k \in 1..MaxGateCalls :
       [](variant = "gate" /\ k \in Handles /\ txs[k].state = "waiting"
            => <>((k \in Handles /\ txs[k].state # "waiting") \/ conn = "closed"))

\* the startTransaction calls that hold the gate: granted and not yet past
\* BEGIN, or with an open transaction object
GateHolders == {k \in Handles : txs[k].state = "granted" \/ k \in OpenTxs}

\* C33: in the mutex-gated adapter at most one startTransaction call holds
\* the gate, and the gate is marked locked while one holds it, whatever
\* commit and rollback calls were made, repeated ones on the same transaction
\* object included.
C33_GateMutualExclusion ==
  variant = "gate" =>
    /\ Cardinality(GateHolders) <= 1
    /\ GateHolders # {} => locked

\* C34: after every run, get and all of a facade statement that returned,
\* the statement has been reset: it stands before its first row, so the next
\* call steps from the start.
C34_CursorResetAfterCall ==
  (variant = "stmt" /\ ext.st.last.op \in {"run", "get", "all"}) => ext.st.cursor = 0

\* C35: in the isFinished-flag adapter, a rollback that follows a commit of
\* the same transaction object which threw because the engine rejected COMMIT
\* issues ROLLBACK, and when it resolves the engine has no open transaction.
C35_RollbackAfterFailedCommit ==
  [][(variant = "flag" /\ last.op = "commit" /\ last.res = "rejected"
        /\ last'.op = "rollback" /\ last'.h = last.h)
       => /\ last'.cmds = <<CmdRollback>>
          /\ last'.res = "resolved" => ~eng'.tx]_vars

\* C36: an executeRaw call reads the engine's change counter before the
\* statement of any other call pending on the connection has been stepped
\* after its own: what it returns is the count of its own statement.
C36_OwnChangesUnderConcurrency ==
  variant = "io" =>
    \A i \in 1..Len(io.calls) :
      io.calls[i].kind = "execute" => ~io.calls[i].staleRead

\* C37: no engine call is made on a connection handle that was closed: when
\* an adapter of the factory runs a query or its dispose hands the handle to
\* sqlite3.close, the handle is open.
C37_NoCallOnClosedHandle ==
  variant = "fac" =>
    \A i \in 1..Len(ext.fac.log) :
      ext.fac.log[i].op \in {"query", "dispose"} => ext.fac.log[i].open

\* C38: a call of a transaction function hands BEGIN (BEGIN IMMEDIATE, BEGIN
\* EXCLUSIVE for those variants) to the engine before fn runs, COMMIT after fn
\* returned, ROLLBACK and then fn's error to the caller when fn threw, and
\* when the call has returned or thrown inTransaction is false and the engine
\* has no open transaction.
C38_TransactionFunction ==
  (variant = "txn" /\ ext.txn.last.kind # "none") =>
    LET l == ext.txn.last IN
      /\ l.log[1] = BeginText(l.kind)
      /\ (Len(l.log) >= 2 /\ l.fnErr = "ok") => l.log[3] = "COMMIT"
      /\ (Len(l.log) >= 2 /\ l.fnErr # "ok")
           => l.log = <<BeginText(l.kind), "fn", "ROLLBACK">> /\ l.res = "threw"
              /\ l.err = l.fnErr
      /\ ~ext.txn.inTransaction
      /\ ~ext.txn.eng.tx

\* C39: queryRaw of the statement-iterating adapter with a text of one
\* row-returning statement gives the column names and the rows of that
\* statement, whatever the engine's change counter stood at before the call.
C39_QueryResultIgnoresCounter ==
  (variant = "multi" /\ ext.mi.made /\ Len(ext.mi.stmts) = 1
     /\ ext.mi.stmts[1].kind = "select") =>
    /\ ext.mi.result.columnNames = <<"c">>
    /\ ext.mi.result.rows = <<"row">>

\* C40: every statement of a text that the statement-iterating adapter has
\* bound got the block of the argument list that follows the arguments of the
\* statements before it: statement k the arguments c_1+...+c_(k-1)+1 to
\* c_1+...+c_k.
C40_ArgumentBlocks ==
  (variant = "multi" /\ ext.mi.made) =>
    \A k \in 1..Len(ext.mi.binds) :
      ext.mi.binds[k] = SubSeq(ext.mi.args, ParamsBefore(ext.mi.stmts, k - 1) + 1,
                               ParamsBefore(ext.mi.stmts, k))
====
